---- MODULE Spec2Model ----
(***************************************************************************)
(* PharmGuard risk-scoring engine: the five per-day anomaly detectors, the *)
(* combiner calculate_overall_risk and the life cycle of the persisted     *)
(* isolation-forest model file (models/isolation_forest.pkl).              *)
(*                                                                         *)
(* Dates are day numbers; day 0 is a Monday, so date.weekday() = d % 7.    *)
(* Amounts, quantities and prices are whole numbers, and every ratio test  *)
(* of the code is evaluated exactly by cross-multiplication.               *)
(* A transaction table is a record                                         *)
(*   rows    : day -> tuple of counts, one count per row kind (RowKinds)   *)
(*   columns : the optional columns the table carries                      *)
(* Messages are modelled by their template; the numbers formatted into     *)
(* them are functions of the metrics of the same result.                   *)
(***************************************************************************)
EXTENDS Bags, FiniteSets, Integers, Sequences, TLC

(***************************************************************************)
(* Bounds and input data                                                   *)
(***************************************************************************)
\* Last day for which the generated tables hold rows.
LastDay == 45

\* The kinds of transaction row that occur in the generated tables.
RowKinds ==
  << [product_name |-> "S", quantity |-> 1, amount |-> 5,  unit_price |-> 5,  branch_id |-> "b1"],
     [product_name |-> "H", quantity |-> 1, amount |-> 50, unit_price |-> 50, branch_id |-> "b1"],
     [product_name |-> "M", quantity |-> 2, amount |-> 20, unit_price |-> 10, branch_id |-> "b2"],
     [product_name |-> "G", quantity |-> 1, amount |-> 60, unit_price |-> 60, branch_id |-> "b2"] >>

Kinds == 1..Len(RowKinds)

\* Day profiles: how many rows of each kind a day holds.
NoRows  == <<0, 0, 0, 0>>
NormalA == <<68, 12, 10, 0>>
NormalB == <<66, 14, 10, 0>>
Crash   == <<20, 0, 0, 0>>
Weekend == <<40, 4, 0, 1>>

None == "None"

(***************************************************************************)
(* Windowed aggregation (the pandas slicing and groupby idioms)            *)
(***************************************************************************)
Weekday(d) == d % 7

Min(a, b) == IF a <= b THEN a ELSE b
Max(a, b) == IF a >= b THEN a ELSE b

\* sum of f[i] for i in lo..hi, for f with values in Nat
SumFn(f, lo, hi) == BagCardinality([i \in {j \in lo..hi : f[j] > 0} |-> f[i]])

RECURSIVE Gcd(_, _)
Gcd(a, b) == IF b = 0 THEN a ELSE Gcd(b, a % b)

Lcm(a, b) == (a \div Gcd(a, b)) * b

\* df[df['transaction_date'].dt.date == d]: the rows of day d
RowsOn(df, d) == IF d \in DOMAIN df.rows THEN df.rows[d] ELSE NoRows

\* len(rows)
DayCount(bag) == SumFn(bag, 1, Len(RowKinds))
\* rows['amount'].sum()
DayAmount(bag) == SumFn([k \in Kinds |-> bag[k] * RowKinds[k].amount], 1, Len(RowKinds))
\* rows['quantity'].sum()
DayQuantity(bag) == SumFn([k \in Kinds |-> bag[k] * RowKinds[k].quantity], 1, Len(RowKinds))
\* len(rows[rows['amount'] < t])
DayCountBelow(bag, t) ==
  SumFn([k \in Kinds |-> IF RowKinds[k].amount < t THEN bag[k] ELSE 0], 1, Len(RowKinds))
\* len(rows[rows['amount'] >= t])
DayCountAtLeast(bag, t) ==
  SumFn([k \in Kinds |-> IF RowKinds[k].amount >= t THEN bag[k] ELSE 0], 1, Len(RowKinds))
\* rows[rows['amount'] >= t]['amount'].sum()
DayAmountAtLeast(bag, t) ==
  SumFn([k \in Kinds |-> IF RowKinds[k].amount >= t THEN bag[k] * RowKinds[k].amount ELSE 0],
        1, Len(RowKinds))
\* rows[rows['product_name'].isin(products)]
OnlyProducts(bag, products) ==
  [k \in Kinds |-> IF RowKinds[k].product_name \in products THEN bag[k] ELSE 0]

\* the days of lo..hi on which the table has rows (the keys of a groupby on the date)
DaysWithRows(df, lo, hi) == {d \in lo..hi : d >= 0 /\ DayCount(RowsOn(df, d)) > 0}

\* A filter that lets the rows of every branch through
FilterBranchKeepAll(df, branch_id) == df

\* transactions_df[transactions_df['branch_id'] == branch_id]
FilterBranch(df, branch_id) ==
  [df EXCEPT !.rows = [d \in DOMAIN df.rows |->
      [k \in Kinds |-> IF RowKinds[k].branch_id = branch_id THEN df.rows[d][k] ELSE 0]]]

\* transaction_date.max() of the table's calendar
LastDate(df) == CHOOSE d \in DOMAIN df.rows : \A e \in DOMAIN df.rows : e <= d

\* transactions_df[transactions_df['transaction_date'].dt.date < today_date]
RowsBefore(df, today_date) ==
  [df EXCEPT !.rows = [d \in DOMAIN df.rows |-> IF d < today_date THEN df.rows[d] ELSE NoRows]]

\* a * x > c * y for naturals with a > 0, evaluated without forming the products
MulGT(a, x, c, y) == x > (c * (y \div a)) + ((c * (y % a)) \div a)

(***************************************************************************)
(* Algorithm 1: daily sales (algorithms/daily_sales.py)                    *)
(***************************************************************************)
DAILY_SALES_CAP == 40

\* A daily-sales detector that returns the sum of its rules as it stands
DailySalesUncapped(risk_score) == risk_score

\* min(risk_score, 40)
DailySalesCapped(risk_score) == Min(risk_score, DAILY_SALES_CAP)

\* A baseline over every day of the trailing window, whatever its weekday
DailySalesBaselineAllDays(df, today_date) ==
  LET historical_end   == today_date - 1
      historical_start == historical_end - 90
      lo   == Max(0, historical_start)
      days == DaysWithRows(df, lo, historical_end)
      amt  == [d \in lo..historical_end |-> IF d \in days THEN DayAmount(RowsOn(df, d)) ELSE 0]
      S    == SumFn(amt, lo, historical_end)
      Q    == SumFn([d \in lo..historical_end |-> amt[d] * amt[d]], lo, historical_end)
      C    == SumFn([d \in lo..historical_end |->
                       IF d \in days THEN DayCount(RowsOn(df, d)) ELSE 0], lo, historical_end)
      n    == Cardinality(days)
  IN  [historical_rows |-> Cardinality(days),
       n |-> n, sum_sales |-> S, sum_count |-> C,
       var_num |-> n * Q - S * S]

\* The same-weekday baseline of the trailing window: the days, and over them
\* the sums behind daily_totals' mean, std (sample, n - 1) and count mean.
DailySalesBaseline(df, today_date) ==
  LET historical_end   == today_date - 1
      historical_start == historical_end - 90
      lo   == Max(0, historical_start)
      days == {d \in DaysWithRows(df, lo, historical_end) : Weekday(d) = Weekday(today_date)}
      amt  == [d \in lo..historical_end |-> IF d \in days THEN DayAmount(RowsOn(df, d)) ELSE 0]
      S    == SumFn(amt, lo, historical_end)
      Q    == SumFn([d \in lo..historical_end |-> amt[d] * amt[d]], lo, historical_end)
      C    == SumFn([d \in lo..historical_end |->
                       IF d \in days THEN DayCount(RowsOn(df, d)) ELSE 0], lo, historical_end)
      n    == Cardinality(days)
  IN  [historical_rows |-> Cardinality(DaysWithRows(df, lo, historical_end)),
       n |-> n, sum_sales |-> S, sum_count |-> C,
       \* n * (n - 1) * variance of the daily totals
       var_num |-> n * Q - S * S]

\* A z-score comparison that divides by std_sales whatever its value, so that
\* any shortfall on a history without variance counts as below every bound
ZScoreBelowAnyVariance(b, today_sales, num, den) ==
  LET A == b.sum_sales - b.n * today_sales
  IN  /\ A > 0
      /\ MulGT(den * den * (b.n - 1), A * A, num * num * b.n, b.var_num)

\* z_score < -(num / den), with z_score = 0 when std_sales is 0
ZScoreBelow(b, today_sales, num, den) ==
  LET A == b.sum_sales - b.n * today_sales
  IN  /\ b.var_num > 0
      /\ A > 0
      /\ MulGT(den * den * (b.n - 1), A * A, num * num * b.n, b.var_num)

\* The rules of the "Risk scoring" block that fire, in the order of the code.
DailySalesRules(b, today_sales, today_transactions, today_date) ==
  [drop        |-> ZScoreBelow(b, today_sales, 3, 2),
   big_drop    |-> ZScoreBelow(b, today_sales, 2, 1),
   few_tx      |-> b.sum_count > 0 /\ 5 * b.n * today_transactions < 3 * b.sum_count,
   weekday_low |-> today_transactions < 50 /\ Weekday(today_date) < 5]

DailySalesRaw(r) ==
  (IF r.drop THEN 30 ELSE 0) + (IF r.big_drop THEN 15 ELSE 0)
    + (IF r.few_tx THEN 15 ELSE 0) + (IF r.weekday_low THEN 10 ELSE 0)

DailySalesMessages(r) ==
  (IF r.drop THEN <<"Sales % below normal", "Today | Average">> ELSE <<>>)
    \o (IF r.big_drop THEN <<"More than 2 standard deviations below normal">> ELSE <<>>)
    \o (IF r.few_tx THEN <<"Only n transactions">> ELSE <<>>)
    \o (IF r.weekday_low THEN <<"Suspiciously low transaction count for weekday">> ELSE <<>>)

\* A detector that declines to analyse a day without rows, as the others do
DailySalesNoRowsDeclined(today_date) ==
  [algorithm |-> "daily_sales_anomaly", risk_score |-> 0, alert |-> FALSE,
   messages |-> <<"No transactions today yet">>, can_analyze |-> FALSE]

\* The early return of lines 35-47: no row is dated today_date
DailySalesNoRows(today_date) ==
  [algorithm |-> "daily_sales_anomaly", risk_score |-> 0, alert |-> FALSE,
   messages |-> <<"No transactions today yet">>, can_analyze |-> TRUE,
   metrics |-> [today_sales |-> 0, today_transactions |-> 0,
                day_of_week |-> Weekday(today_date)]]

calculate_daily_sales_anomaly(today_date, transactions_df, branch_id) ==
  LET df == IF branch_id # None /\ "branch_id" \in transactions_df.columns
            THEN FilterBranch(transactions_df, branch_id)
            ELSE transactions_df
      today == RowsOn(df, today_date)
      today_sales == DayAmount(today)
      today_transactions == DayCount(today)
      base_result ==
        [algorithm |-> "daily_sales_anomaly", risk_score |-> 0, alert |-> FALSE,
         messages |-> <<>>, can_analyze |-> TRUE,
         metrics |-> [today_sales |-> today_sales, today_transactions |-> today_transactions,
                      day_of_week |-> Weekday(today_date)]]
      b == DailySalesBaseline(df, today_date)
      r == DailySalesRules(b, today_sales, today_transactions, today_date)
  IN  IF today_transactions = 0
      THEN DailySalesNoRows(today_date)
      ELSE IF b.historical_rows = 0
      THEN [base_result EXCEPT !.messages = <<"No historical data for comparison">>]
      ELSE IF b.n < 4
      THEN [base_result EXCEPT !.messages = <<"Limited history for weekday comparison">>]
      ELSE [algorithm |-> "daily_sales_anomaly",
            risk_score |-> DailySalesCapped(DailySalesRaw(r)),
            alert |-> r.drop \/ r.few_tx,
            messages |-> DailySalesMessages(r),
            can_analyze |-> TRUE,
            metrics |-> [today_sales |-> today_sales, today_transactions |-> today_transactions,
                         day_of_week |-> Weekday(today_date),
                         avg_sales |-> <<b.sum_sales, b.n>>,
                         avg_transactions |-> <<b.sum_count, b.n>>,
                         \* z_score = z_num / sqrt(n * z_var / (n - 1)), or 0 when z_var = 0
                         z_score |-> [z_num |-> b.n * today_sales - b.sum_sales,
                                      z_var |-> b.var_num]]]

(***************************************************************************)
(* Algorithm 2: high-value products (algorithms/high_value_products.py)    *)
(***************************************************************************)
HIGH_VALUE_THRESHOLD == 50
HIGH_VALUE_CAP == 35

\* A high-value detector that returns the sum of its rules as it stands
HighValueUncapped(risk_score) == risk_score

\* min(risk_score, 35)
HighValueCapped(risk_score) == Min(risk_score, HIGH_VALUE_CAP)

\* Auto-detection: the products whose mean unit_price (or, without that column,
\* sum(amount) / sum(quantity)) over the whole table is at least the threshold.
identify_high_value_products(transactions_df) ==
  LET lo == 0
      hi == LastDate(transactions_df)
      \* the number of rows of each kind in the table
      rowsOf == [k \in Kinds |-> SumFn([d \in lo..hi |-> RowsOn(transactions_df, d)[k]], lo, hi)]
      tot(p, f)  == SumFn([k \in Kinds |-> IF RowKinds[k].product_name = p
                                           THEN rowsOf[k] * f[k] ELSE 0],
                          1, Len(RowKinds))
      ones  == [k \in Kinds |-> 1]
      price == [k \in Kinds |-> RowKinds[k].unit_price]
      amt   == [k \in Kinds |-> RowKinds[k].amount]
      qty   == [k \in Kinds |-> RowKinds[k].quantity]
      present == {RowKinds[k].product_name : k \in {j \in Kinds : rowsOf[j] > 0}}
  IN  IF "unit_price" \in transactions_df.columns
      THEN {p \in present : tot(p, price) >= HIGH_VALUE_THRESHOLD * tot(p, ones)}
      ELSE {p \in present : tot(p, qty) > 0 /\ tot(p, amt) >= HIGH_VALUE_THRESHOLD * tot(p, qty)}

\* The 30-day baseline restricted to the high-value products.
HighValueBaseline(df, today_date, products) ==
  LET historical_end   == today_date - 1
      historical_start == historical_end - 30
      lo   == Max(0, historical_start)
      bag(d) == OnlyProducts(RowsOn(df, d), products)
      days == {d \in lo..historical_end : d >= 0 /\ DayCount(bag(d)) > 0}
  IN  [n |-> Cardinality(days),
       sum_qty   |-> SumFn([d \in lo..historical_end |-> DayQuantity(bag(d))], lo, historical_end),
       sum_value |-> SumFn([d \in lo..historical_end |-> DayAmount(bag(d))], lo, historical_end)]

\* Rules whose zero-sale test reads "hist_avg_qty >= 2"
HighValueRulesFromTwo(b, today, products) ==
  LET today_qty   == IF DayCount(today) > 0 THEN DayQuantity(today) ELSE 0
      today_value == IF DayCount(today) > 0 THEN DayAmount(today) ELSE 0
      sold     == {RowKinds[k].product_name : k \in {j \in Kinds : today[j] > 0}}
      not_sold == products \ sold
  IN  [qty_drop   |-> b.sum_qty > 0 /\ 2 * b.n * today_qty < b.sum_qty,
       zero_sales |-> b.sum_qty > 0 /\ today_qty = 0 /\ b.sum_qty >= 2 * b.n,
       value_drop |-> b.sum_value > 0 /\ 5 * b.n * today_value < 2 * b.sum_value,
       not_sold   |-> DayCount(today) > 0
                        /\ 10 * Cardinality(not_sold) >= 7 * Cardinality(products)]

\* The rules of the "Risk scoring" block (lines 114-151) that fire
HighValueRules(b, today, products) ==
  LET today_qty   == IF DayCount(today) > 0 THEN DayQuantity(today) ELSE 0
      today_value == IF DayCount(today) > 0 THEN DayAmount(today) ELSE 0
      sold     == {RowKinds[k].product_name : k \in {j \in Kinds : today[j] > 0}}
      not_sold == products \ sold
  IN  [qty_drop   |-> b.sum_qty > 0 /\ 2 * b.n * today_qty < b.sum_qty,
       zero_sales |-> b.sum_qty > 0 /\ today_qty = 0 /\ b.sum_qty > 2 * b.n,
       value_drop |-> b.sum_value > 0 /\ 5 * b.n * today_value < 2 * b.sum_value,
       not_sold   |-> DayCount(today) > 0
                        /\ 10 * Cardinality(not_sold) >= 7 * Cardinality(products)]

HighValueRaw(r) ==
  (IF r.qty_drop THEN 25 ELSE 0) + (IF r.zero_sales THEN 20 ELSE 0)
    + (IF r.value_drop THEN 15 ELSE 0) + (IF r.not_sold THEN 10 ELSE 0)

HighValueMessages(r) ==
  (IF r.qty_drop THEN <<"High-value products: Only n units sold", "Average | Today">> ELSE <<>>)
    \o (IF r.zero_sales THEN <<"ZERO high-value product sales today">> ELSE <<>>)
    \o (IF r.value_drop THEN <<"High-value sales: GHS">> ELSE <<>>)
    \o (IF r.not_sold THEN <<"high-value products NOT sold today">> ELSE <<>>)

\* high_value_products is None or a list of product names (a set here):
\* [is_none |-> TRUE, names |-> {}] or [is_none |-> FALSE, names |-> the list]
calculate_high_value_product_anomaly(today_date, transactions_df, high_value_products) ==
  LET products == IF high_value_products.is_none
                  THEN identify_high_value_products(transactions_df)
                  ELSE high_value_products.names
      b     == HighValueBaseline(transactions_df, today_date, products)
      today == OnlyProducts(RowsOn(transactions_df, today_date), products)
      r     == HighValueRules(b, today, products)
  IN  IF products = {}
      THEN [algorithm |-> "high_value_product_tracking", risk_score |-> 0, alert |-> FALSE,
            messages |-> <<"No high-value products identified">>, can_analyze |-> FALSE]
      ELSE IF b.n = 0
      THEN [algorithm |-> "high_value_product_tracking", risk_score |-> 0, alert |-> FALSE,
            messages |-> <<"Insufficient historical data for high-value products">>,
            can_analyze |-> FALSE]
      ELSE [algorithm |-> "high_value_product_tracking",
            risk_score |-> HighValueCapped(HighValueRaw(r)),
            alert |-> r.qty_drop \/ r.zero_sales \/ r.value_drop,
            messages |-> HighValueMessages(r),
            metrics |-> [high_value_products_count |-> Cardinality(products),
                         today_qty |-> DayQuantity(today),
                         avg_qty |-> <<b.sum_qty, b.n>>,
                         today_value |-> DayAmount(today),
                         avg_value |-> <<b.sum_value, b.n>>],
            can_analyze |-> TRUE]


(***************************************************************************)
(* Algorithm 4: product mix (algorithms/product_mix.py)                    *)
(***************************************************************************)
PRODUCT_MIX_CAP == 30

\* min(risk_score, 30)
ProductMixCapped(risk_score) == Min(risk_score, PRODUCT_MIX_CAP)

RECURSIVE LcmOver(_, _, _)
\* least common multiple of the positive f[d], d in lo..hi
LcmOver(f, lo, hi) ==
  IF hi < lo THEN 1
  ELSE IF f[hi] > 0 THEN Lcm(LcmOver(f, lo, hi - 1), f[hi]) ELSE LcmOver(f, lo, hi - 1)

\* The 30-day baseline: hist_daily.mean() = mean_num / (den * n), the mean over
\* the days with rows of (amount sum / row count), brought to one denominator.
ProductMixBaseline(df, today_date) ==
  LET historical_end   == today_date - 1
      historical_start == historical_end - 30
      lo   == Max(0, historical_start)
      cnt  == [d \in lo..historical_end |-> DayCount(RowsOn(df, d))]
      den  == LcmOver(cnt, lo, historical_end)
      days == DaysWithRows(df, lo, historical_end)
  IN  [n |-> Cardinality(days),
       rows |-> SumFn(cnt, lo, historical_end),
       high_rows |-> SumFn([d \in lo..historical_end |-> DayCountAtLeast(RowsOn(df, d), 50)],
                           lo, historical_end),
       den |-> den,
       mean_num |-> SumFn([d \in lo..historical_end |->
                             IF cnt[d] > 0
                             THEN DayAmount(RowsOn(df, d)) * (den \div cnt[d]) ELSE 0],
                          lo, historical_end)]

ProductMixRules(b, today) ==
  LET len_today == DayCount(today)
      small_transactions == DayCountBelow(today, 10)
      high_transactions  == DayCountAtLeast(today, 50)
  IN  [\* today_avg_transaction / hist_avg_transaction < 0.6
       value_drop |-> b.mean_num > 0
                        /\ 5 * DayAmount(today) * b.den * b.n < 3 * len_today * b.mean_num,
       many_small |-> len_today >= 10 /\ 2 * small_transactions > len_today,
       \* hist_high_ratio > 0.1 and today_high_ratio < hist_high_ratio * 0.5
       few_high   |-> 10 * b.high_rows > b.rows
                        /\ 2 * high_transactions * b.rows < b.high_rows * len_today]

ProductMixRaw(r) ==
  (IF r.value_drop THEN 25 ELSE 0) + (IF r.many_small THEN 15 ELSE 0)
    + (IF r.few_high THEN 15 ELSE 0)

ProductMixMessages(r) ==
  (IF r.value_drop
   THEN <<"Average transaction value down %", "Today | Avg", "Possible shift to cheaper products">>
   ELSE <<>>)
    \o (IF r.many_small THEN <<"transactions under GHS 10">> ELSE <<>>)
    \o (IF r.few_high THEN <<"Only n high-value sales", "Normal ratio | Today">> ELSE <<>>)

calculate_product_mix_anomaly(today_date, transactions_df) ==
  LET today == RowsOn(transactions_df, today_date)
      b == ProductMixBaseline(transactions_df, today_date)
      r == ProductMixRules(b, today)
  IN  IF DayCount(today) = 0
      THEN [algorithm |-> "product_mix_analysis", risk_score |-> 0, alert |-> FALSE,
            messages |-> <<"No transactions today">>, can_analyze |-> FALSE]
      ELSE IF b.rows = 0
      THEN [algorithm |-> "product_mix_analysis", risk_score |-> 0, alert |-> FALSE,
            messages |-> <<"Insufficient historical data">>, can_analyze |-> FALSE]
      ELSE [algorithm |-> "product_mix_analysis",
            risk_score |-> ProductMixCapped(ProductMixRaw(r)),
            alert |-> r.value_drop \/ r.many_small \/ r.few_high,
            messages |-> ProductMixMessages(r),
            metrics |-> [today_avg_transaction |-> <<DayAmount(today), DayCount(today)>>,
                         hist_avg_transaction |-> <<b.mean_num, b.den * b.n>>,
                         small_transactions |-> DayCountBelow(today, 10),
                         high_transactions |-> DayCountAtLeast(today, 50)],
            can_analyze |-> TRUE]

(***************************************************************************)
(* Algorithm 5: weekly trends (algorithms/weekly_trends.py)                *)
(***************************************************************************)
WEEKLY_TRENDS_CAP == 35

\* min(risk_score, 35)
WeeklyTrendsCapped(risk_score) == Min(risk_score, WEEKLY_TRENDS_CAP)

\* rows and amount of the days lo..hi
RangeCount(df, lo, hi) ==
  SumFn([d \in Max(0, lo)..hi |-> DayCount(RowsOn(df, d))], Max(0, lo), hi)
RangeAmount(df, lo, hi) ==
  SumFn([d \in Max(0, lo)..hi |-> DayAmount(RowsOn(df, d))], Max(0, lo), hi)

\* A prev_weeks_data that takes in each of the 4 preceding weeks, rows or not
PrevWeeksWithEmpty(df, week_start) ==
  [n |-> 4,
   total |-> SumFn([i \in 1..4 |-> RangeAmount(df, week_start - 7 * i, week_start - 7 * i + 6)],
                   1, 4)]

\* prev_weeks_data: the totals of those of the 4 preceding weeks that have rows
PrevWeeks(df, week_start) ==
  LET weeks == {i \in 1..4 : RangeCount(df, week_start - 7 * i, week_start - 7 * i + 6) > 0}
  IN  [n |-> Cardinality(weeks),
       total |-> SumFn([i \in 1..4 |->
                          IF i \in weeks
                          THEN RangeAmount(df, week_start - 7 * i, week_start - 7 * i + 6)
                          ELSE 0], 1, 4)]

WeeklyTrendsRules(prev_weeks, this_week_total, days_elapsed) ==
  LET \* projected_variance > pct, i.e. projected < (100 - pct)% of the average
      shortfall(pct) ==
        (100 - pct) * prev_weeks.total * days_elapsed > 700 * this_week_total * prev_weeks.n
  IN  [shortfall   |-> prev_weeks.total > 0 /\ shortfall(20),
       critical    |-> prev_weeks.total > 0 /\ shortfall(35),
       below_half  |-> prev_weeks.total > 0 /\ 2 * this_week_total * prev_weeks.n < prev_weeks.total
                         /\ days_elapsed >= 4]

\* A scoring in which the projected shortfall raises the alert and adds nothing
WeeklyTrendsRawAlertOnly(r) ==
  (IF r.critical THEN 15 ELSE 0) + (IF r.below_half THEN 10 ELSE 0)

WeeklyTrendsRaw(r) ==
  (IF r.shortfall THEN 30 ELSE 0) + (IF r.critical THEN 15 ELSE 0)
    + (IF r.below_half THEN 10 ELSE 0)

WeeklyTrendsMessages(r) ==
  (IF r.shortfall
   THEN <<"Week projected at GHS", "Average weekly: GHS", "On track for % below normal">>
   ELSE <<>>)
    \o (IF r.critical THEN <<"CRITICAL: Sustained major underperformance">> ELSE <<>>)
    \o (IF r.below_half THEN <<"Already significantly below weekly average">> ELSE <<>>)

calculate_weekly_trend_anomaly(today_date, transactions_df) ==
  LET days_since_monday == Weekday(today_date)
      week_start == today_date - days_since_monday
      prev_weeks == PrevWeeks(transactions_df, week_start)
      this_week_total == RangeAmount(transactions_df, week_start, today_date)
      days_elapsed == (today_date - week_start) + 1
      r == WeeklyTrendsRules(prev_weeks, this_week_total, days_elapsed)
  IN  IF RangeCount(transactions_df, week_start, today_date) = 0
      THEN [algorithm |-> "weekly_trends", risk_score |-> 0, alert |-> FALSE,
            messages |-> <<"No transactions this week yet">>, can_analyze |-> FALSE]
      ELSE IF prev_weeks.n < 3
      THEN [algorithm |-> "weekly_trends", risk_score |-> 0, alert |-> FALSE,
            messages |-> <<"Insufficient historical weeks (need at least 3)">>,
            can_analyze |-> FALSE]
      ELSE [algorithm |-> "weekly_trends",
            risk_score |-> WeeklyTrendsCapped(WeeklyTrendsRaw(r)),
            alert |-> r.shortfall,
            messages |-> WeeklyTrendsMessages(r),
            metrics |-> [this_week_total |-> this_week_total,
                         projected_week_total |-> <<this_week_total * 7, days_elapsed>>,
                         avg_weekly_sales |-> <<prev_weeks.total, prev_weeks.n>>,
                         days_elapsed |-> days_elapsed,
                         week_start |-> week_start],
            can_analyze |-> TRUE]


(***************************************************************************)
(* Inputs                                                                  *)
(***************************************************************************)
\* A table with rows from day first on: alternating normal weeks, quieter
\* weekends, and the Crash profile from day crash_from on.
MakeRows(first, crash_from) ==
  [d \in 0..LastDay |->
     IF d < first THEN NoRows
     ELSE IF d >= crash_from THEN Crash
     ELSE IF Weekday(d) >= 5 THEN Weekend
     ELSE IF (d \div 7) % 2 = 0 THEN NormalA ELSE NormalB]

MakeTable(first, crash_from, columns) ==
  [rows |-> MakeRows(first, crash_from), columns |-> columns]

AllColumns == {"unit_price", "branch_id"}

\* A small shop: the same 49 rows every day of the calendar
Quiet == <<10, 2, 37, 0>>
QuietTable == [rows |-> [d \in 0..LastDay |-> Quiet], columns |-> AllColumns]

Tables ==
  {MakeTable(0, 42, AllColumns), MakeTable(0, LastDay + 1, AllColumns),
   MakeTable(20, 42, AllColumns), MakeTable(20, LastDay + 1, {}), MakeTable(0, 42, {}),
   QuietTable}

TargetDates == {10, 29, 30, 40, 45, 47}

NoProducts == [is_none |-> TRUE, names |-> {}]
KwargsSet ==
  {[branch_id |-> None, high_value_products |-> NoProducts],
   [branch_id |-> "b1", high_value_products |-> NoProducts],
   [branch_id |-> None, high_value_products |-> [is_none |-> FALSE, names |-> {"H", "G"}]]}


RetrainCutoffs == {25, 40}

(***************************************************************************)
(* Algorithm 6: isolation forest (algorithms/ml_anomaly.py)                *)
(***************************************************************************)
ML_CAP == 35
MIN_TRAINING_DAYS == 30
DEFAULT_CONTAMINATION == 10
\* diagnose_ml.py retrains with contamination=0.15
RETRAIN_CONTAMINATION == 15

\* min(risk_score, 35)
MlCapped(risk_score) == Min(risk_score, ML_CAP)

\* int(): truncation towards zero
Trunc(a, b) == IF a >= 0 THEN a \div b ELSE -((-a) \div b)

RECURSIVE TopAmounts(_, _, _)
\* rows.nlargest(n, 'amount')['amount'].sum(), over the kinds of S
TopAmounts(bag, n, S) ==
  LET live == {k \in S : bag[k] > 0}
  IN  IF n = 0 \/ live = {} THEN 0
      ELSE LET k == CHOOSE j \in live : \A i \in live : RowKinds[j].amount >= RowKinds[i].amount
               take == Min(n, bag[k])
           IN  take * RowKinds[k].amount + TopAmounts(bag, n - take, live \ {k})

\* A ratio "a / b if b > 0 else 0" as the pair <<a, b>> (<<0, 1>> for the else branch)
RatioOrZero(a, b) == IF b > 0 THEN <<a, b>> ELSE <<0, 1>>

\* One record of features_list in _extract_daily_features, for the rows of date
ExtractedFeatures(day_data, date) ==
  LET transaction_count == DayCount(day_data)
      total_sales == DayAmount(day_data)
  IN  [total_sales |-> total_sales,
       transaction_count |-> transaction_count,
       avg_transaction_value |-> <<total_sales, transaction_count>>,
       high_value_ratio |-> RatioOrZero(DayCountAtLeast(day_data, 50), transaction_count),
       high_value_total |-> DayAmountAtLeast(day_data, 50),
       small_transaction_ratio |-> RatioOrZero(DayCountBelow(day_data, 10), transaction_count),
       sales_concentration |->
         RatioOrZero(TopAmounts(day_data, Min(10, transaction_count), Kinds), total_sales),
       avg_quantity |-> <<DayQuantity(day_data), transaction_count>>,
       day_of_week |-> Weekday(date)]

\* _extract_daily_features restricted to feature_columns: the matrix X of train(),
\* one row per date of the table
extract_daily_features(transactions_df) ==
  LET dates == DaysWithRows(transactions_df, 0, LastDate(transactions_df))
  IN  [date \in dates |-> ExtractedFeatures(RowsOn(transactions_df, date), date)]

\* The features dict built inline by predict()
PredictFeatures(today_data, today_date) ==
  LET transaction_count == DayCount(today_data)
      total_sales == DayAmount(today_data)
  IN  [total_sales |-> total_sales,
       transaction_count |-> transaction_count,
       avg_transaction_value |-> <<total_sales, transaction_count>>,
       high_value_ratio |-> RatioOrZero(DayCountAtLeast(today_data, 50), transaction_count),
       high_value_total |-> DayAmountAtLeast(today_data, 50),
       small_transaction_ratio |-> RatioOrZero(DayCountBelow(today_data, 10), transaction_count),
       sales_concentration |->
         RatioOrZero(TopAmounts(today_data, Min(10, transaction_count), Kinds), total_sales),
       avg_quantity |-> <<DayQuantity(today_data), transaction_count>>,
       day_of_week |-> Weekday(today_date)]

\* sum of column col of the feature matrix X
ColumnSum(X, col) == BagCardinality([d \in {e \in DOMAIN X : X[e][col] > 0} |-> X[d][col]])

\* StandardScaler().fit(X) and IsolationForest(contamination, random_state=42,
\* n_estimators=100).fit(X_scaled): with the seed fixed, the fitted parameters are a
\* function of the training matrix and of the contamination. They are kept as the
\* sample count and the column sums of the matrix they were fitted on.
FitScaler(X) ==
  [kind |-> "StandardScaler", n_samples |-> Cardinality(DOMAIN X), contamination |-> 0,
   total_sales |-> ColumnSum(X, "total_sales"),
   transaction_count |-> ColumnSum(X, "transaction_count"),
   high_value_total |-> ColumnSum(X, "high_value_total")]
FitForest(X, contamination) ==
  [kind |-> "IsolationForest", n_samples |-> Cardinality(DOMAIN X),
   contamination |-> contamination,
   total_sales |-> ColumnSum(X, "total_sales"),
   transaction_count |-> ColumnSum(X, "transaction_count"),
   high_value_total |-> ColumnSum(X, "high_value_total")]

\* An unfitted detector: MLAnomalyDetector.__init__
NotFitted == [kind |-> "None", n_samples |-> 0, contamination |-> 0,
              total_sales |-> 0, transaction_count |-> 0, high_value_total |-> 0]
NewDetector == [model |-> NotFitted, scaler |-> NotFitted, is_trained |-> FALSE]

\* scaler.transform(X) of one row: the percent distance of the day's sales and row
\* count from the training means (the two columns the stand-in forest looks at)
ScalerTransform(scaler, x) ==
  LET n == scaler.n_samples
      dist(v, sum) == IF sum = 0 THEN 0
                      ELSE (100 * (IF v * n >= sum THEN v * n - sum ELSE sum - v * n)) \div sum
  IN  [sales |-> dist(x.total_sales, scaler.total_sales),
       count |-> dist(x.transaction_count, scaler.transaction_count)]

\* model.score_samples(X_scaled)[0] in thousandths: negative, lower = more anomalous
\* (score_samples of an isolation forest is -2^(-E[h]/c), in (-1, 0)); a deterministic
\* stand-in for the library's function of the fitted forest and the scaled row
ScoreSamples(model, x_scaled) ==
  -(400 + Min(500, 3 * x_scaled.sales + 2 * x_scaled.count + (model.n_samples % 7)))

\* model.predict(X_scaled)[0]: -1 when the score is below the offset the fit derived
\* from the contamination, else 1
ForestPredict(model, x_scaled) ==
  IF ScoreSamples(model, x_scaled) < -(600 - 5 * model.contamination) THEN -1 ELSE 1

\* A conversion that scales the distance of the score below 0, not below 0.5
RiskFromScoreBelowZero(anomaly_score) ==
  Max(0, Min(100, Trunc((0 - anomaly_score) * 70, 1000)))

\* A conversion without the clamp to 0..100
RiskFromScoreUnclamped(anomaly_score) == Trunc((500 - anomaly_score) * 70, 1000)

\* max(0, min(100, int((0.5 - anomaly_score) * 70))), anomaly_score in thousandths
RiskFromScore(anomaly_score) ==
  Max(0, Min(100, Trunc((500 - anomaly_score) * 70, 1000)))

\* pickle.dump({'model': ..., 'scaler': ...}, f): the blocks written, in order
Pickle(model, scaler) ==
  << [key |-> "model", value |-> model], [key |-> "scaler", value |-> scaler] >>

\* A model file no process of the program wrote, and a file cut short
JunkBytes == << [key |-> "junk", value |-> NotFitted] >>
NoFile == [exists |-> FALSE, bytes |-> <<>>]

\* pickle.load(f) then data['model'], data['scaler']: whether it raises
UnpickleOk(bytes) ==
  /\ Len(bytes) = 2
  /\ bytes[1].key = "model"
  /\ bytes[2].key = "scaler"

\* A _load_model that takes whatever the file holds for a model
LoadUnchecked(detector, file) ==
  IF ~file.exists
  THEN [detector |-> detector, ok |-> FALSE]
  ELSE [detector |-> [model |-> FitForest(<<>>, DEFAULT_CONTAMINATION),
                      scaler |-> FitScaler(<<>>), is_trained |-> TRUE],
        ok |-> TRUE]

\* MLAnomalyDetector._load_model: the detector after it, and the value returned
load_model(detector, file) ==
  IF ~file.exists
  THEN [detector |-> detector, ok |-> FALSE]
  ELSE IF UnpickleOk(file.bytes)
  THEN [detector |-> [model |-> file.bytes[1].value, scaler |-> file.bytes[2].value,
                      is_trained |-> TRUE],
        ok |-> TRUE]
  ELSE [detector |-> detector, ok |-> FALSE]

\* A _save_model whose dump loses the sample count of the scaler
SaveLossy(detector) ==
  [exists |-> TRUE,
   bytes |-> Pickle(detector.model, [detector.scaler EXCEPT !.n_samples = 1])]

\* MLAnomalyDetector._save_model: the file after open(model_path, 'wb') and the dump
save_model(detector) == [exists |-> TRUE, bytes |-> Pickle(detector.model, detector.scaler)]

\* Lines 34-60 of train(): the feature matrix, its number of days, and the fit
FitOn(transactions_df, contamination) ==
  LET X == extract_daily_features(transactions_df)
  IN  [n_days |-> Cardinality(DOMAIN X),
       model  |-> FitForest(X, contamination),
       scaler |-> FitScaler(X)]

\* FitOn over the training tables and contaminations of the model, evaluated once
TrainingTables == {RowsBefore(df, d) : df \in Tables, d \in TargetDates \cup RetrainCutoffs}
Fits ==
  [df \in TrainingTables, contamination \in {DEFAULT_CONTAMINATION, RETRAIN_CONTAMINATION} |->
     FitOn(df, contamination)]

\* MLAnomalyDetector.train: the detector and the file after it, and (success, message)
\* A train() without the 30-day floor of line 40
TrainRegardless(fit, detector, file) ==
  [detector |-> [model |-> fit.model, scaler |-> fit.scaler, is_trained |-> TRUE],
   file |-> [exists |-> TRUE, bytes |-> Pickle(fit.model, fit.scaler)],
   success |-> TRUE,
   message |-> "Model trained on n days"]

\* The part of train() after the feature matrix is built and fitted (lines 40-67)
TrainWith(fit, detector, file) ==
  IF fit.n_days < MIN_TRAINING_DAYS
  THEN [detector |-> detector, file |-> file, success |-> FALSE,
        message |-> "Insufficient data for training (need 30+ days)"]
  ELSE [detector |-> [model |-> fit.model, scaler |-> fit.scaler, is_trained |-> TRUE],
        file |-> save_model([model |-> fit.model, scaler |-> fit.scaler,
                             is_trained |-> TRUE]),
        success |-> TRUE,
        message |-> "Model trained on n days"]

train(detector, file, transactions_df, contamination) ==
  TrainWith(IF <<transactions_df, contamination>> \in DOMAIN Fits
            THEN Fits[transactions_df, contamination]
            ELSE FitOn(transactions_df, contamination),
            detector, file)

\* Lines 174-204 of predict(): the prediction for the day's features
Prediction(detector, features) ==
  [is_anomaly |-> ForestPredict(detector.model,
                                ScalerTransform(detector.scaler, features)) = -1,
   anomaly_score |-> ScoreSamples(detector.model,
                                  ScalerTransform(detector.scaler, features)),
   risk_score |-> RiskFromScore(ScoreSamples(detector.model,
                                             ScalerTransform(detector.scaler, features))),
   features |-> features,
   error |-> None]

\* predict() once the model is at hand (loaded.ok) or is not
PredictWith(loaded, today_data, today_date) ==
  IF ~loaded.ok
  THEN [is_anomaly |-> FALSE, anomaly_score |-> 0, error |-> "Model not trained"]
  ELSE IF DayCount(today_data) = 0
  THEN [is_anomaly |-> FALSE, anomaly_score |-> 0, error |-> "No data for this date"]
  ELSE Prediction(loaded.detector, PredictFeatures(today_data, today_date))

\* MLAnomalyDetector.predict
predict(detector, file, today_date, transactions_df) ==
  PredictWith(IF detector.is_trained THEN [detector |-> detector, ok |-> TRUE]
              ELSE load_model(detector, file),
              RowsOn(transactions_df, today_date), today_date)

\* A wrapper that scores the day but leaves can_analyze unset
MlOutcomeNotAnalysed(result, file, loaded, trained) ==
  IF result.error # None
  THEN [result |-> [algorithm |-> "ml_anomaly_detection", risk_score |-> 0,
                    alert |-> FALSE, messages |-> <<result.error>>,
                    can_analyze |-> FALSE],
        file |-> file, loaded |-> loaded, trained |-> trained]
  ELSE [result |-> [algorithm |-> "ml_anomaly_detection",
                    risk_score |-> MlCapped(result.risk_score),
                    alert |-> result.is_anomaly,
                    messages |-> IF result.is_anomaly
                                 THEN <<"ML Model flagged this day as anomalous",
                                        "Anomaly Score", "Based on">>
                                 ELSE <<>>,
                    metrics |-> result.features,
                    can_analyze |-> FALSE,
                    ml_model |-> "Isolation Forest (scikit-learn)"],
        file |-> file, loaded |-> loaded, trained |-> trained]

\* Lines 261-287 of calculate_ml_anomaly: the outcome of the call from what
\* predict() returned
MlOutcome(result, file, loaded, trained) ==
  IF result.error # None
  THEN [result |-> [algorithm |-> "ml_anomaly_detection", risk_score |-> 0,
                    alert |-> FALSE, messages |-> <<result.error>>,
                    can_analyze |-> FALSE],
        file |-> file, loaded |-> loaded, trained |-> trained]
  ELSE [result |-> [algorithm |-> "ml_anomaly_detection",
                    risk_score |-> MlCapped(result.risk_score),
                    alert |-> result.is_anomaly,
                    messages |-> IF result.is_anomaly
                                 THEN <<"ML Model flagged this day as anomalous",
                                        "Anomaly Score", "Based on">>
                                 ELSE <<>>,
                    metrics |-> result.features,
                    can_analyze |-> TRUE,
                    ml_model |-> "Isolation Forest (scikit-learn)"],
        file |-> file, loaded |-> loaded, trained |-> trained]

\* Lines 248-259: the model could not be loaded and train() has returned
MlAfterTrain(trained, today_date, transactions_df) ==
  IF ~trained.success
  THEN [result |-> [algorithm |-> "ml_anomaly_detection", risk_score |-> 0,
                    alert |-> FALSE, messages |-> <<trained.message>>,
                    can_analyze |-> FALSE],
        file |-> trained.file, loaded |-> FALSE, trained |-> FALSE]
  ELSE MlOutcome(predict(trained.detector, trained.file, today_date, transactions_df),
                 trained.file, FALSE, TRUE)

\* A calculate_ml_anomaly that trains whether or not the model was loaded
MlAlwaysTrain(loaded, today_date, transactions_df, file) ==
  MlAfterTrain(train(NewDetector, file, RowsBefore(transactions_df, today_date),
                     DEFAULT_CONTAMINATION),
               today_date, transactions_df)

\* Line 243 on: _load_model() has returned
MlAfterLoad(loaded, today_date, transactions_df, file) ==
  IF loaded.ok
  THEN MlOutcome(predict(loaded.detector, file, today_date, transactions_df),
                 file, TRUE, FALSE)
  ELSE MlAfterTrain(train(loaded.detector, file, RowsBefore(transactions_df, today_date),
                          DEFAULT_CONTAMINATION),
                    today_date, transactions_df)

\* calculate_ml_anomaly: the result, the model file after the call, and whether
\* the call loaded the persisted model or trained one
calculate_ml_anomaly(today_date, transactions_df, file) ==
  MlAfterLoad(load_model(NewDetector, file), today_date, transactions_df, file)


(***************************************************************************)
(* The combiner (algorithms/master.py, config.py)                          *)
(***************************************************************************)
ALERT_THRESHOLD == 40
TOTAL_CAP == 100

\* config.RISK_LEVELS, in the order of the dict
RISK_LEVELS ==
  << [level |-> "low",      min_score |-> 0,  max_score |-> 39],
     [level |-> "medium",   min_score |-> 40, max_score |-> 59],
     [level |-> "high",     min_score |-> 60, max_score |-> 79],
     [level |-> "critical", min_score |-> 80, max_score |-> 100] >>

\* The registration order of the detectors: the insertion order of results
Algorithms == <<"daily_sales", "high_value_products", "product_mix", "weekly_trends", "ml_anomaly">>

\* A band test that leaves out each band's upper end
LevelFromStrict(score, i) ==
  IF \E j \in i..Len(RISK_LEVELS) :
       RISK_LEVELS[j].min_score <= score /\ score < RISK_LEVELS[j].max_score
  THEN RISK_LEVELS[CHOOSE j \in i..Len(RISK_LEVELS) :
                     RISK_LEVELS[j].min_score <= score /\ score < RISK_LEVELS[j].max_score].level
  ELSE "low"

RECURSIVE LevelFrom(_, _)
\* the loop over RISK_LEVELS.items() from band i on: the first band that matches,
\* and the default 'low' when none does
LevelFrom(score, i) ==
  IF i > Len(RISK_LEVELS) THEN "low"
  ELSE IF RISK_LEVELS[i].min_score <= score /\ score <= RISK_LEVELS[i].max_score
       THEN RISK_LEVELS[i].level
       ELSE LevelFrom(score, i + 1)

RiskLevel(total_risk_score) == LevelFrom(total_risk_score, 1)

RecommendedAction(risk_level) ==
  CASE risk_level = "critical" -> "URGENT: Investigate immediately"
    [] risk_level = "high"     -> "Investigate today"
    [] risk_level = "medium"   -> "Monitor closely"
    [] OTHER                   -> "Normal operations"

\* A loop that adds every detector's score
ScoreAlways(result) == result.risk_score

\* What one detector adds to total_risk_score in the loop over results.items()
Contribution(result) == IF result.can_analyze THEN result.risk_score ELSE 0

RECURSIVE SumScores(_, _)
SumScores(results, i) ==
  IF i = 0 THEN 0 ELSE SumScores(results, i - 1) + Contribution(results[Algorithms[i]])

RECURSIVE ActiveAlgorithms(_, _)
ActiveAlgorithms(results, i) ==
  IF i = 0 THEN <<>>
  ELSE ActiveAlgorithms(results, i - 1)
         \o (IF results[Algorithms[i]].can_analyze THEN <<Algorithms[i]>> ELSE <<>>)

RECURSIVE MessagesOfAlerts(_, _)
\* A loop that collects the messages of every alerting detector
MessagesOfAlerts(results, i) ==
  IF i = 0 THEN <<>>
  ELSE MessagesOfAlerts(results, i - 1)
         \o (IF results[Algorithms[i]].alert THEN results[Algorithms[i]].messages ELSE <<>>)

RECURSIVE MessagesOfAnalysed(_, _)
\* A loop that collects the messages of every detector that analysed
MessagesOfAnalysed(results, i) ==
  IF i = 0 THEN <<>>
  ELSE MessagesOfAnalysed(results, i - 1)
         \o (IF results[Algorithms[i]].can_analyze THEN results[Algorithms[i]].messages ELSE <<>>)

RECURSIVE AllMessages(_, _)
\* all_messages after the loop over results.items() (lines 86-92)
AllMessages(results, i) ==
  IF i = 0 THEN <<>>
  ELSE AllMessages(results, i - 1)
         \o (IF results[Algorithms[i]].can_analyze /\ results[Algorithms[i]].alert
             THEN results[Algorithms[i]].messages ELSE <<>>)

\* A total without the cap of line 95
TotalUncapped(total_risk_score) == total_risk_score

\* min(total_risk_score, 100)
TotalCapped(total_risk_score) == Min(total_risk_score, TOTAL_CAP)

\* An assessment whose requires_alert also asks for an alerting detector
CombineResultsAlertGated(today_date, results) ==
  LET total_risk_score == TotalCapped(SumScores(results, Len(Algorithms)))
  IN  [date |-> today_date,
       total_risk_score |-> total_risk_score,
       risk_level |-> RiskLevel(total_risk_score),
       recommended_action |-> RecommendedAction(RiskLevel(total_risk_score)),
       alert_messages |-> AllMessages(results, Len(Algorithms)),
       algorithms_run |-> ActiveAlgorithms(results, Len(Algorithms)),
       algorithm_results |-> results,
       requires_alert |-> /\ total_risk_score >= ALERT_THRESHOLD
                          /\ AllMessages(results, Len(Algorithms)) # <<>>]

\* Lines 81-133 of calculate_overall_risk: the assessment built from results
CombineResults(today_date, results) ==
  LET total_risk_score == TotalCapped(SumScores(results, Len(Algorithms)))
  IN  [date |-> today_date,
       total_risk_score |-> total_risk_score,
       risk_level |-> RiskLevel(total_risk_score),
       recommended_action |-> RecommendedAction(RiskLevel(total_risk_score)),
       alert_messages |-> AllMessages(results, Len(Algorithms)),
       algorithms_run |-> ActiveAlgorithms(results, Len(Algorithms)),
       algorithm_results |-> results,
       requires_alert |-> total_risk_score >= ALERT_THRESHOLD]


\* The four detectors that read nothing but their arguments, as run by
\* calculate_overall_risk (lines 42-70)
RunDetectors(today_date, transactions_df, kwargs) ==
  [daily_sales |-> calculate_daily_sales_anomaly(today_date, transactions_df,
                                                 kwargs.branch_id),
   high_value_products |-> calculate_high_value_product_anomaly(
                               today_date, transactions_df, kwargs.high_value_products),
   product_mix |-> calculate_product_mix_anomaly(today_date, transactions_df),
   weekly_trends |-> calculate_weekly_trend_anomaly(today_date, transactions_df)]

\* RunDetectors over the inputs of the model, evaluated once
DetectorRuns ==
  [df \in Tables, today_date \in TargetDates, kwargs \in KwargsSet |->
     RunDetectors(today_date, df, kwargs)]

\* calculate_overall_risk: the assessment and the effect of the ML detector on the
\* model file
OverallResult(today_date, pure, ml) ==
  [assessment |-> CombineResults(today_date,
                                 [daily_sales |-> pure.daily_sales,
                                  high_value_products |-> pure.high_value_products,
                                  product_mix |-> pure.product_mix,
                                  weekly_trends |-> pure.weekly_trends,
                                  ml_anomaly |-> ml.result]),
   file |-> ml.file, loaded |-> ml.loaded, trained |-> ml.trained]

calculate_overall_risk(today_date, transactions_df, kwargs, file) ==
  OverallResult(today_date,
                IF <<transactions_df, today_date, kwargs>> \in DOMAIN DetectorRuns
                THEN DetectorRuns[transactions_df, today_date, kwargs]
                ELSE RunDetectors(today_date, transactions_df, kwargs),
                calculate_ml_anomaly(today_date, transactions_df, file))

\* A model file left by an earlier run on an earlier export of the sales data
EarlierTable == MakeTable(5, LastDay + 1, {})
EarlierModelFile ==
  save_model([model |-> FitForest(extract_daily_features(EarlierTable), DEFAULT_CONTAMINATION),
              scaler |-> FitScaler(extract_daily_features(EarlierTable)),
              is_trained |-> TRUE])
JunkFile == [exists |-> TRUE, bytes |-> JunkBytes]

(***************************************************************************)
(* State                                                                   *)
(***************************************************************************)
VARIABLES
  loaded_df,   \* the table loaded for this run (immutable during the run)
  model_file,  \* models/isolation_forest.pkl: [exists, bytes]
  last,        \* the last operation: its inputs, what it found and returned
  prev,        \* the call before the last, when both were the same call
  procs,       \* the concurrent runs of the ML detector (SpecConc)
  results      \* the results dict handed to the combining step (SpecCombine)

vars == <<loaded_df, model_file, last, prev, procs, results>>

NoAssessment == [date |-> -1]
NoKwargs == [branch_id |-> None, high_value_products |-> NoProducts]
NoPrev == [same |-> FALSE, trained |-> FALSE, assessment |-> NoAssessment]
NoCall == [op |-> "none", today_date |-> -1, kwargs |-> NoKwargs, found |-> "none",
           loaded |-> FALSE, trained |-> FALSE, assessment |-> NoAssessment]
NoResults == <<>>
NoTable == MakeTable(LastDay + 1, LastDay + 1, {})

\* What _load_model meets at model_path
Found(file) ==
  IF ~file.exists THEN "absent" ELSE IF UnpickleOk(file.bytes) THEN "loadable" ELSE "unreadable"

Procs == {"p1", "p2"}
Idle == [pc |-> "idle", run |-> "none", today_date |-> -1, contamination |-> 0,
         detector |-> NewDetector, pos |-> 0, read |-> "none"]

Init ==
  /\ loaded_df \in Tables
  /\ model_file \in {NoFile, JunkFile, EarlierModelFile}
  /\ last = NoCall
  /\ prev = NoPrev
  /\ procs = [p \in Procs |-> Idle]
  /\ results = NoResults

(***************************************************************************)
(* Sequential operations                                                   *)
(***************************************************************************)
\* main.py, scan_all_dates.py, the dashboards: calculate_overall_risk(date, df, **kwargs)
OverallRisk(today_date, kwargs) ==
  \E run \in {calculate_overall_risk(today_date, loaded_df, kwargs, model_file)} :
      /\ model_file' = run.file
      /\ last' = [op |-> "calculate_overall_risk", today_date |-> today_date,
                  kwargs |-> kwargs, found |-> Found(model_file),
                  loaded |-> run.loaded, trained |-> run.trained,
                  assessment |-> run.assessment]
      /\ prev' = IF last.op = "calculate_overall_risk" /\ last.today_date = today_date
                      /\ last.kwargs = kwargs
                 THEN [same |-> TRUE, trained |-> last.trained,
                       assessment |-> last.assessment]
                 ELSE NoPrev
      /\ UNCHANGED <<loaded_df, procs, results>>

\* diagnose_ml.py: MLAnomalyDetector().train(rows before cutoff, contamination=0.15)
Retrain(cutoff) ==
  \E run \in {train(NewDetector, model_file, RowsBefore(loaded_df, cutoff),
                    RETRAIN_CONTAMINATION)} :
      /\ model_file' = run.file
      /\ last' = [NoCall EXCEPT !.op = "train", !.today_date = cutoff,
                                !.found = Found(model_file), !.trained = run.success]
      /\ prev' = NoPrev
      /\ UNCHANGED <<loaded_df, procs, results>>

\* The environment damages the model file: foreign bytes, or a file cut to nothing
CorruptFile ==
  /\ model_file.exists
  /\ \E bytes \in {JunkBytes, <<>>} :
       /\ bytes # model_file.bytes
       /\ model_file' = [exists |-> TRUE, bytes |-> bytes]
  /\ last' = [NoCall EXCEPT !.op = "corrupt", !.found = Found(model_file)]
  /\ prev' = NoPrev
  /\ UNCHANGED <<loaded_df, procs, results>>

Next ==
  \/ \E today_date \in TargetDates, kwargs \in KwargsSet : OverallRisk(today_date, kwargs)
  \/ \E cutoff \in RetrainCutoffs : Retrain(cutoff)
  \/ CorruptFile

Spec == Init /\ [][Next]_vars

(***************************************************************************)
(* The combining step on its own (master.py lines 81-133)                  *)
(***************************************************************************)
\* The results one detector may hand the combining step: it analysed and scored
\* nothing, part of its cap or its cap, or it reports can_analyze = False, there
\* with the score and alert a well-behaved detector leaves at 0 / False or not.
DetectorResults(name, cap, part) ==
  {[algorithm |-> name, can_analyze |-> o[1], risk_score |-> o[2], alert |-> o[3],
    messages |-> IF o[3] THEN <<name>> ELSE <<>>] :
     o \in {<<TRUE, 0, FALSE>>, <<TRUE, part, TRUE>>, <<TRUE, cap, TRUE>>,
            <<FALSE, 0, FALSE>>, <<FALSE, cap, TRUE>>}}

ResultDicts ==
  [daily_sales         : DetectorResults("daily_sales_anomaly", DAILY_SALES_CAP, 25),
   high_value_products : DetectorResults("high_value_product_tracking", HIGH_VALUE_CAP, 20),
   product_mix         : DetectorResults("product_mix_analysis", PRODUCT_MIX_CAP, 15),
   weekly_trends       : DetectorResults("weekly_trends", WEEKLY_TRENDS_CAP, 10),
   ml_anomaly          : DetectorResults("ml_anomaly_detection", ML_CAP, 5)]

InitCombine ==
  /\ loaded_df = NoTable
  /\ model_file = NoFile
  /\ last = NoCall
  /\ prev = NoPrev
  /\ procs = [p \in Procs |-> Idle]
  /\ results \in ResultDicts

\* calculate_overall_risk from line 81 on, with the results dict filled in
Combine ==
  /\ last.op = "none"
  /\ last' = [NoCall EXCEPT !.op = "combine", !.today_date = 0,
                            !.assessment = CombineResults(0, results)]
  /\ UNCHANGED <<loaded_df, model_file, prev, procs, results>>

NextCombine == Combine

SpecCombine == InitCombine /\ [][NextCombine]_vars

(***************************************************************************)
(* Concurrent runs against the one model path. The requests of the Flask   *)
(* dashboards and scripts started side by side each run calculate_ml_      *)
(* anomaly or train(); a run is the steps between its system calls on the  *)
(* model file: the read of _load_model, the truncating open of _save_model *)
(* and the writes of pickle.dump, one per block of the pickle.             *)
(***************************************************************************)
ConcDates == {10, 45, 47}

\* What a write past the end of the file leaves in the gap
ZeroBlock == [key |-> "zeros", value |-> NotFitted]

\* write(block) at block offset pos of a file holding bytes
WriteAt(bytes, pos, block) ==
  [i \in 1..Max(Len(bytes), pos + 1) |->
     IF i = pos + 1 THEN block ELSE IF i <= Len(bytes) THEN bytes[i] ELSE ZeroBlock]

\* A file caught between the truncating open and the last write of a dump
PartlyWritten(file) ==
  /\ file.exists
  /\ Len(file.bytes) < Len(Pickle(NotFitted, NotFitted))
  /\ \A i \in 1..Len(file.bytes) : file.bytes[i].key \in {"model", "scaler"}

\* calculate_ml_anomaly enters: detector = MLAnomalyDetector()
ConcBegin(p, today_date) ==
  /\ procs[p].pc = "idle"
  /\ procs' = [procs EXCEPT ![p] = [Idle EXCEPT !.pc = "load", !.run = "calculate_ml_anomaly",
                                                !.today_date = today_date,
                                                !.contamination = DEFAULT_CONTAMINATION]]
  /\ UNCHANGED <<loaded_df, model_file, last, prev, results>>

\* diagnose_ml.py enters: MLAnomalyDetector().train(rows before cutoff, 0.15)
ConcBeginTrain(p, cutoff) ==
  /\ procs[p].pc = "idle"
  /\ procs' = [procs EXCEPT ![p] = [Idle EXCEPT !.pc = "train", !.run = "train",
                                                !.today_date = cutoff,
                                                !.contamination = RETRAIN_CONTAMINATION]]
  /\ UNCHANGED <<loaded_df, model_file, last, prev, results>>

\* detector._load_model(): one read of whatever the file holds now
ConcLoad(p) ==
  /\ procs[p].pc = "load"
  /\ \E loaded \in {load_model(procs[p].detector, model_file)} :
       procs' = [procs EXCEPT ![p].detector = loaded.detector,
                              ![p].pc = IF loaded.ok THEN "predict" ELSE "train",
                              ![p].read = IF PartlyWritten(model_file) THEN "partial"
                                          ELSE Found(model_file)]
  /\ UNCHANGED <<loaded_df, model_file, last, prev, results>>

\* detector.train(historical) up to the call of _save_model (lines 37-62): the
\* detector train() leaves; what it writes is spelled out in the save steps
ConcTrain(p) ==
  /\ procs[p].pc = "train"
  /\ \E run \in {train(procs[p].detector, NoFile,
                       RowsBefore(loaded_df, procs[p].today_date),
                       procs[p].contamination)} :
       procs' = [procs EXCEPT ![p].detector = run.detector,
                              ![p].pc = IF run.success THEN "save_open" ELSE "idle"]
  /\ UNCHANGED <<loaded_df, model_file, last, prev, results>>

\* _save_model: open(self.model_path, 'wb') creates or truncates the file
ConcSaveOpen(p) ==
  /\ procs[p].pc = "save_open"
  /\ model_file' = [exists |-> TRUE, bytes |-> <<>>]
  /\ procs' = [procs EXCEPT ![p].pc = "save_write", ![p].pos = 0]
  /\ UNCHANGED <<loaded_df, last, prev, results>>

\* _save_model: pickle.dump writes the next block at this writer's own offset;
\* after the last one the file is closed and the run goes on
ConcSaveWrite(p) ==
  /\ procs[p].pc = "save_write"
  /\ \E pickled \in {Pickle(procs[p].detector.model, procs[p].detector.scaler)} :
       /\ model_file' = [exists |-> TRUE,
                         bytes |-> WriteAt(model_file.bytes, procs[p].pos,
                                           pickled[procs[p].pos + 1])]
       /\ procs' = [procs EXCEPT ![p].pos = procs[p].pos + 1,
                                 ![p].pc = IF procs[p].pos + 1 < Len(pickled) THEN "save_write"
                                           ELSE IF procs[p].run = "train" THEN "idle"
                                           ELSE "predict"]
  /\ UNCHANGED <<loaded_df, last, prev, results>>

\* detector.predict(today_date, transactions_df) with the model in memory, and return
ConcPredict(p) ==
  /\ procs[p].pc = "predict"
  /\ procs' = [procs EXCEPT ![p].pc = "idle"]
  /\ UNCHANGED <<loaded_df, model_file, last, prev, results>>

InitConc ==
  /\ loaded_df \in Tables
  /\ model_file \in {NoFile, JunkFile, EarlierModelFile}
  /\ last = NoCall
  /\ prev = NoPrev
  /\ procs = [p \in Procs |-> Idle]
  /\ results = NoResults

NextConc ==
  \E p \in Procs :
    \/ \E today_date \in ConcDates : ConcBegin(p, today_date)
    \/ \E cutoff \in RetrainCutoffs : ConcBeginTrain(p, cutoff)
    \/ ConcLoad(p)
    \/ ConcTrain(p)
    \/ ConcSaveOpen(p)
    \/ ConcSaveWrite(p)
    \/ ConcPredict(p)

SpecConc == InitConc /\ [][NextConc]_vars

(***************************************************************************)
(* The four rule-based detectors on their own, as test_algorithm1.py and   *)
(* test_all_algorithms.py call them: one call on a loaded table.           *)
(***************************************************************************)
\* Last day of the calendar of the tables below.
DetectLast == 100

\* Further day profiles
Dip      == <<68, 11, 11, 0>>
LowValue == <<90, 0, 0, 0>>
Edge54   == <<54, 0, 0, 0>>
Edge53   == <<53, 0, 0, 0>>
Quiet2   == <<50, 2, 8, 0>>
Quiet3   == <<49, 3, 8, 0>>
Quiet49  == <<49, 0, 0, 0>>
Quiet50  == <<50, 0, 0, 0>>
Old      == <<10, 40, 0, 0>>

\* The dates analysed: a Friday, the Thursday, Friday and Saturday a week on, a
\* Wednesday, and a Thursday in a week the tables hold no row of
DetectDates == {88, 94, 95, 96, 100, 108}

\* The rows of an ordinary day d under a sales pattern
Pattern(name, d) ==
  CASE name = "AB"  -> IF (d \div 7) % 2 = 0 THEN NormalA ELSE NormalB
    [] name = "A"   -> NormalA
    [] name = "Q2"  -> Quiet2
    [] name = "Q3"  -> Quiet3
    [] name = "Q23" -> IF (d \div 7) % 2 = 0 THEN Quiet2 ELSE Quiet3

\* A table with rows from day first on: the first six days of the calendar
\* trade under an older profile, the analysed dates hold today_rows, every
\* other day follows the pattern.
DetectTable(first, name, today_rows) ==
  [rows |-> [d \in 0..DetectLast |->
               IF d < first THEN NoRows
               ELSE IF d \in DetectDates THEN today_rows
               ELSE IF d < 6 THEN Old
               ELSE Pattern(name, d)],
   columns |-> AllColumns]

DetectTables ==
  {DetectTable(first, name, today_rows) :
     first \in {0, 61, 68, 90, 95}, name \in {"AB", "A"},
     today_rows \in {NoRows, NormalA, Dip, Crash, LowValue, Edge54, Edge53}}
  \cup
  {DetectTable(first, name, today_rows) :
     first \in {0, 77}, name \in {"Q2", "Q3", "Q23"},
     today_rows \in {NoRows, Quiet49, Quiet50, Crash, NormalA}}

BranchIds == {None, "b1"}
ProductLists ==
  {NoProducts,
   [is_none |-> FALSE, names |-> {"H", "G"}],
   [is_none |-> FALSE, names |-> {"H", "G", "Insulin", "Ventolin"}]}

InitDetect ==
  /\ loaded_df \in DetectTables
  /\ model_file = NoFile
  /\ last = NoCall
  /\ prev = NoPrev
  /\ procs = [p \in Procs |-> Idle]
  /\ results = NoResults

\* calculate_daily_sales_anomaly(today_date, transactions_df, branch_id=...)
DetectDailySales(today_date, branch_id) ==
  /\ last.op = "none"
  /\ results' = calculate_daily_sales_anomaly(today_date, loaded_df, branch_id)
  /\ last' = [NoCall EXCEPT !.op = "calculate_daily_sales_anomaly",
                            !.today_date = today_date,
                            !.kwargs = [NoKwargs EXCEPT !.branch_id = branch_id]]
  /\ UNCHANGED <<loaded_df, model_file, prev, procs>>

\* calculate_high_value_product_anomaly(today_date, transactions_df, high_value_products=...)
DetectHighValue(today_date, high_value_products) ==
  /\ last.op = "none"
  /\ results' = calculate_high_value_product_anomaly(today_date, loaded_df,
                                                      high_value_products)
  /\ last' = [NoCall EXCEPT !.op = "calculate_high_value_product_anomaly",
                            !.today_date = today_date,
                            !.kwargs = [NoKwargs EXCEPT
                                          !.high_value_products = high_value_products]]
  /\ UNCHANGED <<loaded_df, model_file, prev, procs>>

\* calculate_product_mix_anomaly(today_date, transactions_df)
DetectProductMix(today_date) ==
  /\ last.op = "none"
  /\ results' = calculate_product_mix_anomaly(today_date, loaded_df)
  /\ last' = [NoCall EXCEPT !.op = "calculate_product_mix_anomaly",
                            !.today_date = today_date]
  /\ UNCHANGED <<loaded_df, model_file, prev, procs>>

\* calculate_weekly_trend_anomaly(today_date, transactions_df)
DetectWeeklyTrend(today_date) ==
  /\ last.op = "none"
  /\ results' = calculate_weekly_trend_anomaly(today_date, loaded_df)
  /\ last' = [NoCall EXCEPT !.op = "calculate_weekly_trend_anomaly",
                            !.today_date = today_date]
  /\ UNCHANGED <<loaded_df, model_file, prev, procs>>

NextDetect ==
  \E today_date \in DetectDates :
    \/ \E branch_id \in BranchIds : DetectDailySales(today_date, branch_id)
    \/ \E high_value_products \in ProductLists :
         DetectHighValue(today_date, high_value_products)
    \/ DetectProductMix(today_date)
    \/ DetectWeeklyTrend(today_date)

SpecDetect == InitDetect /\ [][NextDetect]_vars

(***************************************************************************)
(* A quarter of steady trade and one bad weekday, analysed end to end      *)
(* (investigate_day.py: calculate_overall_risk on the suspicious date).    *)
(***************************************************************************)
\* Last day of the calendar of the tables below.
ScenarioLast == 97

\* 100 rows worth 1000, 101 rows worth 1005, 20 rows worth 200
Thousand    == <<76, 2, 20, 2>>
ThousandOdd == <<77, 2, 20, 2>>
TwoHundred  == <<18, 1, 0, 1>>

\* The bad day is a Monday or a Friday, after 91 or 95 days of trade
ScenarioDates == {91, 95}

\* Every day sells 1000 in 100 rows (even: exactly; otherwise every other week
\* sells 1005 in 101 rows), but for bad_day
ScenarioTable(bad_day, even) ==
  [rows |-> [d \in 0..ScenarioLast |->
               IF d = bad_day THEN TwoHundred
               ELSE IF even \/ (d \div 7) % 2 = 0 THEN Thousand
               ELSE ThousandOdd],
   columns |-> AllColumns]

ScenarioTables == {ScenarioTable(bad_day, even) : bad_day \in ScenarioDates, even \in BOOLEAN}

InitScenario ==
  /\ loaded_df \in ScenarioTables
  /\ model_file \in {NoFile, JunkFile, EarlierModelFile}
  /\ last = NoCall
  /\ prev = NoPrev
  /\ procs = [p \in Procs |-> Idle]
  /\ results = NoResults

NextScenario ==
  \E today_date \in ScenarioDates, kwargs \in KwargsSet : OverallRisk(today_date, kwargs)

SpecScenario == InitScenario /\ [][NextScenario]_vars

(***************************************************************************)
(* The conversion of the forest's anomaly score into the detector's risk   *)
(* score (ml_anomaly.py lines 189-196 and 269-281), on drawn scores.       *)
(***************************************************************************)
\* The anomaly scores drawn, in thousandths: -ScoreBound .. ScoreBound
ScoreBound == 1000

\* How far above the first score the second one lies, in thousandths
ScoreSteps == {1, 14, 15, 100}

\* The risk_score calculate_ml_anomaly returns for a prediction with that score
MlRiskOfScore(anomaly_score) == MlCapped(RiskFromScore(anomaly_score))

InitScore ==
  /\ loaded_df = NoTable
  /\ model_file = NoFile
  /\ last = NoCall
  /\ prev = NoPrev
  /\ procs = [p \in Procs |-> Idle]
  /\ results \in {[anomaly_score |-> s] : s \in (-ScoreBound)..ScoreBound}

\* Two predictions, the second with a score higher by step, each converted
\* and capped
ScoreTwo(step) ==
  /\ last.op = "none"
  /\ results' = [anomaly_score |-> results.anomaly_score,
                 risk_score    |-> MlRiskOfScore(results.anomaly_score),
                 higher_score  |-> results.anomaly_score + step,
                 higher_risk   |-> MlRiskOfScore(results.anomaly_score + step)]
  /\ last' = [NoCall EXCEPT !.op = "predict"]
  /\ UNCHANGED <<loaded_df, model_file, prev, procs>>

NextScore == \E step \in ScoreSteps : ScoreTwo(step)

SpecScore == InitScore /\ [][NextScore]_vars

(***************************************************************************)
(* The Daily Sales detector with a branch filter, run on two tables that   *)
(* hold the same rows of that branch (daily_sales.py lines 26-33).         *)
(***************************************************************************)
\* The table that holds df's rows of branch_id and other's rows of every
\* other branch
WithOtherBranches(df, other, branch_id) ==
  [df EXCEPT !.rows = [d \in DOMAIN df.rows |->
      [k \in Kinds |-> IF RowKinds[k].branch_id = branch_id
                       THEN df.rows[d][k] ELSE other.rows[d][k]]]]

\* The tables the rows of the other branches are taken from
OtherTables ==
  {DetectTable(0, "A", Crash), DetectTable(61, "AB", NormalA),
   DetectTable(DetectLast + 1, "A", NoRows)}

FilterBranches == {"b1", "b2"}

InitBranch ==
  /\ loaded_df \in DetectTables
  /\ model_file = NoFile
  /\ last = NoCall
  /\ prev = NoPrev
  /\ procs = [p \in Procs |-> Idle]
  /\ results = NoResults

\* calculate_daily_sales_anomaly(today_date, df, branch_id=...) on the loaded
\* table and on the table with the other branches' rows exchanged
DailySalesOfBranch(today_date, branch_id, other) ==
  /\ last.op = "none"
  /\ results' =
       [first    |-> calculate_daily_sales_anomaly(today_date, loaded_df, branch_id),
        second   |-> calculate_daily_sales_anomaly(
                       today_date, WithOtherBranches(loaded_df, other, branch_id), branch_id),
        other_df |-> WithOtherBranches(loaded_df, other, branch_id)]
  /\ last' = [NoCall EXCEPT !.op = "daily_sales_of_branch",
                            !.today_date = today_date,
                            !.kwargs = [NoKwargs EXCEPT !.branch_id = branch_id]]
  /\ UNCHANGED <<loaded_df, model_file, prev, procs>>

NextBranch ==
  \E today_date \in DetectDates, branch_id \in FilterBranches, other \in OtherTables :
    DailySalesOfBranch(today_date, branch_id, other)

SpecBranch == InitBranch /\ [][NextBranch]_vars

(***************************************************************************)
(* The feature vector of one day, as train() and as predict() build it     *)
(* (ml_anomaly.py lines 43-47, 69-118 and 137-172).                        *)
(***************************************************************************)
\* feature_columns of train(): the columns of X, in order
feature_columns ==
  <<"total_sales", "transaction_count", "avg_transaction_value", "high_value_ratio",
    "high_value_total", "small_transaction_ratio", "sales_concentration",
    "avg_quantity", "day_of_week">>

\* A predict() that lists the count before the sales
PredictColumnsSwapped ==
  <<"transaction_count", "total_sales", "avg_transaction_value", "high_value_ratio",
    "high_value_total", "small_transaction_ratio", "sales_concentration",
    "avg_quantity", "day_of_week">>

\* The entries of the one row of X in predict(), in order
PredictColumns ==
  <<"total_sales", "transaction_count", "avg_transaction_value", "high_value_ratio",
    "high_value_total", "small_transaction_ratio", "sales_concentration",
    "avg_quantity", "day_of_week">>

\* daily_features[feature_columns].values, the row of date
TrainRow(transactions_df, date) ==
  [i \in 1..Len(feature_columns) |->
     extract_daily_features(transactions_df)[date][feature_columns[i]]]

\* X = np.array([[features[...], ...]]) of predict(), its one row
PredictRow(transactions_df, today_date) ==
  [i \in 1..Len(PredictColumns) |->
     PredictFeatures(RowsOn(transactions_df, today_date), today_date)[PredictColumns[i]]]

\* The days whose rows are turned into features
FeatureDates == DetectDates \cup {3, 50, 63}

InitFeatures ==
  /\ loaded_df \in DetectTables
  /\ model_file = NoFile
  /\ last = NoCall
  /\ prev = NoPrev
  /\ procs = [p \in Procs |-> Idle]
  /\ results = NoResults

\* The row train() builds for date and the row predict() builds for it
FeaturesOfDay(date) ==
  /\ last.op = "none"
  /\ date \in DaysWithRows(loaded_df, 0, LastDate(loaded_df))
  /\ results' = [train_row   |-> TrainRow(loaded_df, date),
                 predict_row |-> PredictRow(loaded_df, date)]
  /\ last' = [NoCall EXCEPT !.op = "features_of_day", !.today_date = date]
  /\ UNCHANGED <<loaded_df, model_file, prev, procs>>

NextFeatures == \E date \in FeatureDates : FeaturesOfDay(date)

SpecFeatures == InitFeatures /\ [][NextFeatures]_vars

(***************************************************************************)
(* One assessment on two tables that hold the same rows up to the target   *)
(* date, with no model at model_path (master.py calculate_overall_risk).   *)
(***************************************************************************)
\* The table that holds df's rows dated today_date or earlier and other's
\* rows dated later
WithLaterRows(df, other, today_date) ==
  [df EXCEPT !.rows = [d \in DOMAIN df.rows |->
                         IF d <= today_date THEN df.rows[d] ELSE other.rows[d]]]

\* The tables the later rows are taken from
LaterTables == Tables \cup {NoTable}

InitFuture ==
  /\ loaded_df \in Tables
  /\ model_file = NoFile
  /\ last = NoCall
  /\ prev = NoPrev
  /\ procs = [p \in Procs |-> Idle]
  /\ results = NoResults

\* calculate_overall_risk(today_date, df, **kwargs) on the loaded table and on
\* the table with the later rows exchanged, each with no file at model_path
OverallRiskOfPast(today_date, kwargs, other) ==
  /\ last.op = "none"
  /\ results' =
       [first    |-> calculate_overall_risk(today_date, loaded_df, kwargs, NoFile).assessment,
        second   |-> calculate_overall_risk(
                       today_date, WithLaterRows(loaded_df, other, today_date),
                       kwargs, NoFile).assessment,
        other_df |-> WithLaterRows(loaded_df, other, today_date)]
  /\ last' = [NoCall EXCEPT !.op = "overall_risk_of_past",
                            !.today_date = today_date, !.kwargs = kwargs]
  /\ UNCHANGED <<loaded_df, model_file, prev, procs>>

NextFuture ==
  \E today_date \in TargetDates, kwargs \in KwargsSet, other \in LaterTables :
    OverallRiskOfPast(today_date, kwargs, other)

SpecFuture == InitFuture /\ [][NextFuture]_vars

(***************************************************************************)
(* Properties                                                              *)
(***************************************************************************)
\* the last operation was a call of calculate_overall_risk / the combining step
Called == last.op = "calculate_overall_risk"
Combined == last.op = "combine"

\* the results dict of the last assessment
ResultsOfLast == last.assessment.algorithm_results

\* the distinct days of the loaded table dated before the last call's target date
HistoryDays ==
  Cardinality({d \in DOMAIN loaded_df.rows : d < last.today_date /\ loaded_df.rows[d] # NoRows})

\* the sum of the scores of the detectors that analysed, written out
AnalysedSum(res) ==
  (IF res.daily_sales.can_analyze THEN res.daily_sales.risk_score ELSE 0)
    + (IF res.high_value_products.can_analyze THEN res.high_value_products.risk_score ELSE 0)
    + (IF res.product_mix.can_analyze THEN res.product_mix.risk_score ELSE 0)
    + (IF res.weekly_trends.can_analyze THEN res.weekly_trends.risk_score ELSE 0)
    + (IF res.ml_anomaly.can_analyze THEN res.ml_anomaly.risk_score ELSE 0)

\* C1: every assessment calculate_overall_risk returns has an integer
\* total_risk_score with 0 <= total_risk_score <= 100, and requires_alert is
\* true exactly when total_risk_score >= 40.
C1_TotalInRange ==
  Called =>
    /\ last.assessment.total_risk_score \in 0..100
    /\ last.assessment.requires_alert <=> (last.assessment.total_risk_score >= 40)

\* C1 case: the detectors that analysed sum to more than 100 and the total is 100
C1_Witness ==
  /\ Called
  /\ AnalysedSum(ResultsOfLast) > 100
  /\ last.assessment.total_risk_score = 100
  /\ last.assessment.requires_alert

\* the bands of RISK_LEVELS a score lies in
BandsOf(score) ==
  {i \in 1..Len(RISK_LEVELS) :
     RISK_LEVELS[i].min_score <= score /\ score <= RISK_LEVELS[i].max_score}

\* C2: the four bands low 0-39, medium 40-59, high 60-79, critical 80-100
\* partition 0..100 (every score lies in exactly one), and the risk_level of an
\* assessment is the level of the band its total_risk_score lies in, never the
\* 'low' default by fall-through.
C2_BandsPartition ==
  /\ RISK_LEVELS = << [level |-> "low",      min_score |-> 0,  max_score |-> 39],
                      [level |-> "medium",   min_score |-> 40, max_score |-> 59],
                      [level |-> "high",     min_score |-> 60, max_score |-> 79],
                      [level |-> "critical", min_score |-> 80, max_score |-> 100] >>
  /\ \A score \in 0..100 : Cardinality(BandsOf(score)) = 1
  /\ Combined =>
       \E i \in BandsOf(last.assessment.total_risk_score) :
          last.assessment.risk_level = RISK_LEVELS[i].level

\* C2 case: a total at the upper end of the last band is levelled critical
C2_Witness ==
  /\ Combined
  /\ last.assessment.total_risk_score = 100
  /\ last.assessment.risk_level = "critical"

\* C3: each detector's risk_score is an integer between 0 and its own cap
\* (40, 35, 30, 35, 35), also when the rules that fire sum to more than the cap.
C3_ScoresWithinCaps ==
  Called =>
    /\ ResultsOfLast.daily_sales.risk_score \in 0..40
    /\ ResultsOfLast.high_value_products.risk_score \in 0..35
    /\ ResultsOfLast.product_mix.risk_score \in 0..30
    /\ ResultsOfLast.weekly_trends.risk_score \in 0..35
    /\ ResultsOfLast.ml_anomaly.risk_score \in 0..35

\* C3 case: all four daily-sales rules (30 + 15 + 15 + 10) and the three
\* high-value rules worth 25 + 20 + 15 fired, and the scores returned are the caps
C3_Witness ==
  /\ Called
  /\ Len(ResultsOfLast.daily_sales.messages) = 5
  /\ ResultsOfLast.daily_sales.risk_score = 40
  /\ Len(ResultsOfLast.high_value_products.messages) >= 4
  /\ ResultsOfLast.high_value_products.risk_score = 35
  /\ ResultsOfLast.ml_anomaly.can_analyze
  /\ ResultsOfLast.ml_anomaly.risk_score = 35

\* C4: total_risk_score = min(100, sum of risk_score over the detectors with
\* can_analyze = true); a detector with can_analyze = false adds 0 whatever its
\* risk_score; algorithms_run lists exactly the detectors with can_analyze =
\* true, in registration order.
C4_OnlyAnalysedCount ==
  Combined =>
    /\ last.assessment.total_risk_score =
         (IF AnalysedSum(results) <= 100 THEN AnalysedSum(results) ELSE 100)
    /\ last.assessment.algorithms_run =
         SelectSeq(<<"daily_sales", "high_value_products", "product_mix",
                     "weekly_trends", "ml_anomaly">>,
                   LAMBDA name : results[name].can_analyze)

\* C4 case: a detector with can_analyze = false and a nonzero score next to
\* detectors that analysed
C4_Witness ==
  /\ Combined
  /\ ~results.product_mix.can_analyze
  /\ results.product_mix.risk_score > 0
  /\ last.assessment.algorithms_run = <<"daily_sales", "ml_anomaly">>
  /\ last.assessment.total_risk_score = 45

C6_TrainOnceThenReuse ==
  [][ /\ (Found(model_file) = "loadable" /\ last'.op = "calculate_overall_risk")
          => (last'.loaded /\ ~last'.trained /\ model_file' = model_file)
      /\ (Found(model_file) = "loadable" /\ model_file' # model_file)
          => last'.op \in {"train", "corrupt"} ]_vars

\* C6 case: a call on a table and date the persisted model was not trained on
\* loaded that model and scored the day with it
C6_Witness ==
  /\ Called
  /\ last.found = "loadable"
  /\ last.loaded
  /\ model_file = EarlierModelFile
  /\ ResultsOfLast.ml_anomaly.can_analyze

\* C7: a model file that exists but cannot be unpickled into a model and a
\* scaler is treated as no model: the call returns, and with at least 30 days
\* before the target date it retrains on those rows and overwrites the file,
\* otherwise it returns can_analyze = false with risk_score 0.
C7_UnreadableIsNoModel ==
  (Called /\ last.found = "unreadable") =>
    /\ last.assessment.date = last.today_date
    /\ ~last.loaded
    /\ IF HistoryDays >= 30
       THEN /\ last.trained
            /\ model_file.exists
            /\ model_file.bytes =
                 << [key |-> "model",
                     value |-> FitOn(RowsBefore(loaded_df, last.today_date), 10).model],
                    [key |-> "scaler",
                     value |-> FitOn(RowsBefore(loaded_df, last.today_date), 10).scaler] >>
       ELSE /\ ~last.trained
            /\ ~ResultsOfLast.ml_anomaly.can_analyze
            /\ ResultsOfLast.ml_anomaly.risk_score = 0

\* C7 case: the call met an unreadable file, retrained and left a loadable one
C7_Witness ==
  /\ Called
  /\ last.found = "unreadable"
  /\ last.trained
  /\ Found(model_file) = "loadable"

\* the training data behind a block of the model file
FitDigest(block) ==
  <<block.value.n_samples, block.value.total_sales, block.value.transaction_count,
    block.value.high_value_total>>

\* the file holds blocks of two writers, or a gap one writer left in another's file
TornFile(file) ==
  /\ file.exists
  /\ \/ \E i \in 1..Len(file.bytes) : file.bytes[i].key = "zeros"
     \/ /\ Len(file.bytes) = 2
        /\ file.bytes[1].key = "model"
        /\ file.bytes[2].key = "scaler"
        /\ FitDigest(file.bytes[1]) # FitDigest(file.bytes[2])

\* C8: concurrent runs do not interleave their writes of the model file: the
\* file never holds a mix of two writers' bytes, and no reader observes a partly
\* written file.
C8_WritesDoNotInterleave ==
  /\ ~TornFile(model_file)
  /\ \A p \in Procs : procs[p].read # "partial"

C10_ToleratesNoAnalysis ==
  Combined =>
    /\ DOMAIN last.assessment =
         {"date", "total_risk_score", "risk_level", "recommended_action",
          "alert_messages", "algorithms_run", "algorithm_results", "requires_alert"}
    /\ (\A name \in DOMAIN results : ~results[name].can_analyze) =>
         /\ last.assessment.total_risk_score = 0
         /\ last.assessment.risk_level = "low"
         /\ last.assessment.algorithms_run = <<>>
         /\ last.assessment.alert_messages = <<>>
         /\ ~last.assessment.requires_alert

\* C10 case: all five detectors report can_analyze = false, some of them with a
\* score and an alert set
C10_Witness ==
  /\ Combined
  /\ \A name \in DOMAIN results : ~results[name].can_analyze
  /\ results.daily_sales.risk_score > 0
  /\ results.ml_anomaly.alert

\* the messages a result hands on when its own alert flag is set
AlertingMessages(result) == IF result.alert THEN result.messages ELSE <<>>

\* C11: alert_messages is the concatenation of the messages of the detectors
\* whose own alert is true, in the order daily_sales, high_value_products,
\* product_mix, weekly_trends, ml_anomaly, each detector's messages in its own
\* order; the messages of a detector with alert = false do not appear.
C11_AlertMessagesInOrder ==
  Called =>
    last.assessment.alert_messages =
      AlertingMessages(ResultsOfLast.daily_sales)
        \o AlertingMessages(ResultsOfLast.high_value_products)
        \o AlertingMessages(ResultsOfLast.product_mix)
        \o AlertingMessages(ResultsOfLast.weekly_trends)
        \o AlertingMessages(ResultsOfLast.ml_anomaly)

\* C11 case: two detectors alert with several messages each, and a detector
\* that analysed without alerting holds a message that is left out
C11_Witness ==
  /\ Called
  /\ ResultsOfLast.high_value_products.alert
  /\ Len(ResultsOfLast.high_value_products.messages) >= 2
  /\ ResultsOfLast.weekly_trends.alert
  /\ Len(ResultsOfLast.weekly_trends.messages) >= 2
  /\ ResultsOfLast.daily_sales.can_analyze
  /\ ~ResultsOfLast.daily_sales.alert
  /\ ResultsOfLast.daily_sales.messages # <<>>
  /\ Len(last.assessment.alert_messages) >=
       Len(ResultsOfLast.high_value_products.messages)
         + Len(ResultsOfLast.weekly_trends.messages)

\* the last operation was a call of the detector of that name on its own
Detected(name) == last.op = name

\* the rows of the loaded table dated d
LoadedRows(d) == IF d \in DOMAIN loaded_df.rows THEN loaded_df.rows[d] ELSE NoRows

\* the days of lo..hi on which the loaded table holds rows
LoadedDays(lo, hi) == {d \in lo..hi : d \in DOMAIN loaded_df.rows /\ LoadedRows(d) # NoRows}

\* C12: when the table has no transaction dated on the target date, the Daily
\* Sales detector returns can_analyze = true, today_sales = 0,
\* today_transactions = 0, risk_score 0 and alert false, whatever the history.
C12_NoRowsTodayStillAnalysed ==
  (Detected("calculate_daily_sales_anomaly") /\ LoadedRows(last.today_date) = NoRows) =>
    /\ results.can_analyze
    /\ results.metrics.today_sales = 0
    /\ results.metrics.today_transactions = 0
    /\ results.risk_score = 0
    /\ ~results.alert

\* C12 case: a Friday without rows after twelve Fridays and more with rows
C12_Witness ==
  /\ Detected("calculate_daily_sales_anomaly")
  /\ LoadedRows(last.today_date) = NoRows
  /\ Cardinality({d \in LoadedDays(last.today_date - 90, last.today_date - 1) :
                    Weekday(d) = Weekday(last.today_date)}) >= 12
  /\ results.can_analyze
  /\ results.messages = <<"No transactions today yet">>

\* the Monday of the week of the last call's target date
WeekStart == last.today_date - Weekday(last.today_date)

\* those of the 4 Monday-Sunday weeks before that week that hold a row
PopulatedWeeks ==
  {i \in 1..4 : LoadedDays(WeekStart - 7 * i, WeekStart - 7 * i + 6) # {}}

\* C13: the Weekly Trend detector returns can_analyze = false, risk_score 0 and
\* alert false when the span from Monday to the target date holds no row, or
\* when fewer than 3 of the 4 preceding Monday-Sunday weeks hold a row.
C13_TooFewWeeksNoAnalysis ==
  (/\ Detected("calculate_weekly_trend_anomaly")
   /\ \/ LoadedDays(WeekStart, last.today_date) = {}
      \/ Cardinality(PopulatedWeeks) < 3) =>
    /\ ~results.can_analyze
    /\ results.risk_score = 0
    /\ ~results.alert

\* C13 case: rows in the target week, exactly 2 of the 4 preceding weeks populated
C13_Witness ==
  /\ Detected("calculate_weekly_trend_anomaly")
  /\ LoadedDays(WeekStart, last.today_date) # {}
  /\ Cardinality(PopulatedWeeks) = 2
  /\ ~results.can_analyze
  /\ results.messages = <<"Insufficient historical weeks (need at least 3)">>

\* the products the last call of the High-Value detector tracks: the list it
\* was given, or the products of the table priced at 50 or more
Tracked ==
  IF last.kwargs.high_value_products.is_none
  THEN {RowKinds[k].product_name :
          k \in {j \in Kinds : /\ RowKinds[j].unit_price >= 50
                               /\ \E d \in DOMAIN loaded_df.rows : loaded_df.rows[d][j] > 0}}
  ELSE last.kwargs.high_value_products.names

\* the kinds of row that sell one of products
KindsOf(products) == {k \in Kinds : RowKinds[k].product_name \in products}

\* quantity sold on day d in rows of those kinds
QuantityOf(kinds, d) ==
  SumFn([k \in Kinds |-> IF k \in kinds THEN LoadedRows(d)[k] * RowKinds[k].quantity ELSE 0],
        1, Len(RowKinds))

\* the days of the High-Value detector's historical window with rows of those kinds
HistoryDaysOf(kinds) ==
  {d \in LoadedDays(last.today_date - 31, last.today_date - 1) :
     \E k \in kinds : LoadedRows(d)[k] > 0}

\* the quantity sold over days
QuantityOver(kinds, days) ==
  BagCardinality([d \in {e \in days : QuantityOf(kinds, e) > 0} |-> QuantityOf(kinds, d)])

ZeroSaleMessage == "ZERO high-value product sales today"

InMessages(msg) == \E i \in 1..Len(results.messages) : results.messages[i] = msg

\* C14: when the High-Value detector analyses, the zero-sale penalty (its
\* message, alert = true) applies exactly when today's quantity of the tracked
\* products is 0 and the historical daily mean quantity is strictly above 2.
C14_ZeroSaleAboveTwo ==
  (Detected("calculate_high_value_product_anomaly") /\ results.can_analyze) =>
    \E kinds \in {KindsOf(Tracked)} : \E days \in {HistoryDaysOf(kinds)} :
      /\ InMessages(ZeroSaleMessage) <=>
           (/\ QuantityOf(kinds, last.today_date) = 0
            /\ QuantityOver(kinds, days) > 2 * Cardinality(days))
      /\ InMessages(ZeroSaleMessage) => (results.alert /\ results.risk_score = 35)

\* C14 case: the one high-value product sold 3 units on each day of the
\* history and none on the target date, which has other rows
C14_Witness ==
  /\ Detected("calculate_high_value_product_anomaly")
  /\ Tracked = {"H"}
  /\ Cardinality(HistoryDaysOf(KindsOf({"H"}))) >= 20
  /\ \A d \in HistoryDaysOf(KindsOf({"H"})) : QuantityOf(KindsOf({"H"}), d) = 3
  /\ QuantityOf(KindsOf({"H"}), last.today_date) = 0
  /\ LoadedRows(last.today_date) # NoRows
  /\ InMessages(ZeroSaleMessage)
  /\ results.alert

\* no detector of the last assessment has its alert flag set
NoDetectorAlerts ==
  /\ ~ResultsOfLast.daily_sales.alert
  /\ ~ResultsOfLast.high_value_products.alert
  /\ ~ResultsOfLast.product_mix.alert
  /\ ~ResultsOfLast.weekly_trends.alert
  /\ ~ResultsOfLast.ml_anomaly.alert

\* C15: requires_alert follows from the summed scores alone, whatever the
\* detectors' alert flags are: it is true exactly when the scores of the
\* detectors that analysed sum to 40 or more, also when no detector alerts.
C15_AlertFromSumAlone ==
  Called =>
    (last.assessment.requires_alert <=> (AnalysedSum(ResultsOfLast) >= 40))

\* C15 case: an assessment with requires_alert = true in which no detector has
\* alert = true and alert_messages is empty: contributions that set no alert
\* (the weekday low-count rule, the score of a day the forest labels normal)
\* sum past 40
C15_Witness ==
  /\ Called
  /\ last.assessment.requires_alert
  /\ NoDetectorAlerts
  /\ last.assessment.alert_messages = <<>>
  /\ ResultsOfLast.daily_sales.risk_score = 10
  /\ ResultsOfLast.ml_anomaly.risk_score = 35

\* sales and number of rows of the loaded table on day d
LoadedSales(d) == DayAmount(LoadedRows(d))
LoadedCount(d) == DayCount(LoadedRows(d))

\* the last call analysed the one bad weekday of a table of steady trade: 200 in
\* 20 rows on a weekday, after 90 or more days, every other day of the table
\* about 1000 in about 100 rows
BadWeekdayAnalysed ==
  /\ Called
  /\ Weekday(last.today_date) < 5
  /\ LoadedSales(last.today_date) = 200
  /\ LoadedCount(last.today_date) = 20
  /\ Cardinality(LoadedDays(0, last.today_date - 1)) >= 90
  /\ \A d \in DOMAIN loaded_df.rows \ {last.today_date} :
        LoadedSales(d) \in 1000..1005 /\ LoadedCount(d) \in 100..101

\* the same-weekday days before the target date do not all sell the same
SameWeekdayVaries ==
  \E d \in LoadedDays(0, last.today_date - 1), e \in LoadedDays(0, last.today_date - 1) :
     /\ Weekday(d) = Weekday(last.today_date)
     /\ Weekday(e) = Weekday(last.today_date)
     /\ LoadedSales(d) # LoadedSales(e)

\* the sum of the scores of the detectors whose alert is set
AlertingSum(res) ==
  (IF res.daily_sales.alert THEN res.daily_sales.risk_score ELSE 0)
    + (IF res.high_value_products.alert THEN res.high_value_products.risk_score ELSE 0)
    + (IF res.product_mix.alert THEN res.product_mix.risk_score ELSE 0)
    + (IF res.weekly_trends.alert THEN res.weekly_trends.risk_score ELSE 0)
    + (IF res.ml_anomaly.alert THEN res.ml_anomaly.risk_score ELSE 0)

\* C16 as stated: analysing the bad weekday gives a Daily Sales result with
\* alert = true and risk_score 40, a total_risk_score equal to the sum over the
\* alerting detectors, and a risk_level of high or critical.
C16_BadWeekdayScores ==
  BadWeekdayAnalysed =>
    /\ ResultsOfLast.daily_sales.alert
    /\ ResultsOfLast.daily_sales.risk_score = 40
    /\ last.assessment.total_risk_score = AlertingSum(ResultsOfLast)
    /\ last.assessment.risk_level \in {"high", "critical"}

\* C16 amended: analysing the bad weekday gives a Daily Sales result with
\* alert = true; its risk_score is 40 when the same-weekday history does not
\* sell the same every day, and 25 when it does (the z-score is then 0 and only
\* the two transaction-count rules fire); total_risk_score is the sum over the
\* detectors that analysed, capped at 100; risk_level is high or critical.
C16_BadWeekdayScoresByVariance ==
  BadWeekdayAnalysed =>
    /\ ResultsOfLast.daily_sales.alert
    /\ ResultsOfLast.daily_sales.risk_score = (IF SameWeekdayVaries THEN 40 ELSE 25)
    /\ last.assessment.total_risk_score =
         (IF AnalysedSum(ResultsOfLast) <= 100 THEN AnalysedSum(ResultsOfLast) ELSE 100)
    /\ last.assessment.risk_level \in {"high", "critical"}

\* C16 case: the bad day is a Friday after 95 days that do not all sell the
\* same; Daily Sales scores 40 with all its rules firing
C16_Witness ==
  /\ BadWeekdayAnalysed
  /\ SameWeekdayVaries
  /\ ResultsOfLast.daily_sales.risk_score = 40
  /\ Len(ResultsOfLast.daily_sales.messages) = 5
  /\ last.assessment.risk_level \in {"high", "critical"}

\* the kinds of row the last call of the Daily Sales detector reads: all of them,
\* or those of the branch it was given
BranchKinds ==
  IF last.kwargs.branch_id = None THEN Kinds
  ELSE {k \in Kinds : RowKinds[k].branch_id = last.kwargs.branch_id}

\* sales and number of rows of day d in rows of those kinds
SalesOf(kinds, d) ==
  SumFn([k \in Kinds |-> IF k \in kinds THEN LoadedRows(d)[k] * RowKinds[k].amount ELSE 0],
        1, Len(RowKinds))
CountOf(kinds, d) ==
  SumFn([k \in Kinds |-> IF k \in kinds THEN LoadedRows(d)[k] ELSE 0], 1, Len(RowKinds))

\* the days with rows of those kinds that fall on the weekday of the target
\* date and lie 1 to span days before it
SameWeekdayDays(kinds, span) ==
  {d \in LoadedDays(last.today_date - span, last.today_date - 1) :
     /\ Weekday(d) = Weekday(last.today_date)
     /\ CountOf(kinds, d) > 0}

\* sum of F over days
SumOver(days, F(_)) == BagCardinality([d \in {e \in days : F(e) > 0} |-> F(d)])

\* the detector compared the day with its history
Compared == "avg_sales" \in DOMAIN results.metrics

\* C17: the Daily Sales baseline is built from the same-weekday days of the 90
\* days before the target date: the sales mean and the transaction-count mean
\* the detector reports are those of the same-weekday days that lie 1 to 90
\* days before the target date.
C17_BaselineWithinNinetyDays ==
  (Detected("calculate_daily_sales_anomaly") /\ Compared) =>
    \E kinds \in {BranchKinds} : \E days \in {SameWeekdayDays(kinds, 90)} :
      /\ results.metrics.avg_sales =
           <<SumOver(days, LAMBDA d : SalesOf(kinds, d)), Cardinality(days)>>
      /\ results.metrics.avg_transactions =
           <<SumOver(days, LAMBDA d : CountOf(kinds, d)), Cardinality(days)>>

\* the messages of the scoring rules of the Daily Sales detector
DailySalesRuleMessages ==
  {"Sales % below normal", "Today | Average",
   "More than 2 standard deviations below normal", "Only n transactions",
   "Suspiciously low transaction count for weekday"}

\* the last call of the Daily Sales detector found rows on the target date and
\* fewer than 4 same-weekday days with rows in its historical window
ThinHistory ==
  /\ Detected("calculate_daily_sales_anomaly")
  /\ \E kinds \in {BranchKinds} :
       /\ CountOf(kinds, last.today_date) > 0
       /\ Cardinality(SameWeekdayDays(kinds, 91)) < 4

\* C18: when the target date has rows and fewer than 4 same-weekday days exist
\* in the historical window, the Daily Sales detector returns can_analyze = true,
\* the raw metrics of the target date and nothing else, risk_score 0 and
\* alert = false, and none of the messages of its scoring rules.
C18_ThinHistoryNotScored ==
  ThinHistory =>
    \E kinds \in {BranchKinds} :
      /\ results.can_analyze
      /\ results.risk_score = 0
      /\ ~results.alert
      /\ results.metrics =
           [today_sales |-> SalesOf(kinds, last.today_date),
            today_transactions |-> CountOf(kinds, last.today_date),
            day_of_week |-> Weekday(last.today_date)]
      /\ \A i \in 1..Len(results.messages) : results.messages[i] \notin DailySalesRuleMessages

\* C18 case: a Monday-to-Friday target date with fewer than 50 rows, history in
\* the window, and one to three same-weekday days in it
C18_Witness ==
  /\ ThinHistory
  /\ Weekday(last.today_date) < 5
  /\ \E kinds \in {BranchKinds} :
       /\ CountOf(kinds, last.today_date) < 50
       /\ Cardinality(SameWeekdayDays(kinds, 91)) \in 1..3
       /\ \E d \in LoadedDays(last.today_date - 91, last.today_date - 1) :
            CountOf(kinds, d) >= 50
  /\ results.messages = <<"Limited history for weekday comparison">>
  /\ results.risk_score = 0

\* z < -(num / den) for today's sales t against n daily totals with sum S and
\* sum of squares Q, where z = (t - mean) / stdev (sample stdev) and z = 0 when
\* stdev is 0
ZBelow(n, S, Q, t, num, den) ==
  /\ n * Q - S * S > 0
  /\ S > n * t
  /\ MulGT(den * den * (n - 1), (S - n * t) * (S - n * t), num * num * n, n * Q - S * S)

\* the score of the four rules for today's sales t and count c against n
\* same-weekday days with sales sum S, sum of squares Q and count sum C
FourRuleScore(n, S, Q, C, t, c, weekday) ==
  (IF ZBelow(n, S, Q, t, 3, 2) THEN 30 ELSE 0)
    + (IF ZBelow(n, S, Q, t, 2, 1) THEN 15 ELSE 0)
    + (IF 5 * n * c < 3 * C THEN 15 ELSE 0)
    + (IF c < 50 /\ weekday < 5 THEN 10 ELSE 0)

\* the squares of the daily sales
SquareOf(kinds, d) == SalesOf(kinds, d) * SalesOf(kinds, d)

\* C19: with rows on the target date and at least 4 same-weekday days in the
\* historical window, the Daily Sales risk_score is min(40, 30 if z < -1.5,
\* plus 15 if z < -2.0, plus 15 if today's count is below 60% of the mean
\* count, plus 10 if today's count is below 50 on a Monday to Friday), with
\* z = (today_sales - mean) / stdev and z = 0 when stdev is 0; alert is true
\* exactly when the z < -1.5 rule or the 60% rule fires.
C19_ScoreOfFourRules ==
  Detected("calculate_daily_sales_anomaly") =>
    \E kinds \in {BranchKinds} : \E days \in {SameWeekdayDays(kinds, 91)} :
      (CountOf(kinds, last.today_date) > 0 /\ Cardinality(days) >= 4) =>
        \E n \in {Cardinality(days)},
           S \in {SumOver(days, LAMBDA d : SalesOf(kinds, d))},
           Q \in {SumOver(days, LAMBDA d : SquareOf(kinds, d))},
           C \in {SumOver(days, LAMBDA d : CountOf(kinds, d))},
           t \in {SalesOf(kinds, last.today_date)},
           c \in {CountOf(kinds, last.today_date)} :
          /\ results.risk_score =
               Min(40, FourRuleScore(n, S, Q, C, t, c, Weekday(last.today_date)))
          /\ results.alert = (ZBelow(n, S, Q, t, 3, 2) \/ 5 * n * c < 3 * C)

\* C19 case: at least 4 same-weekday days that all sell the same, a target date
\* selling less than half of that with the usual number of rows: no rule fires
C19_Witness ==
  /\ Detected("calculate_daily_sales_anomaly")
  /\ Compared
  /\ results.metrics.avg_sales[2] >= 4
  /\ results.metrics.z_score.z_var = 0
  /\ 2 * results.metrics.avg_sales[2] * results.metrics.today_sales
       < results.metrics.avg_sales[1]
  /\ results.risk_score = 0
  /\ ~results.alert

NotSoldMessage == "high-value products NOT sold today"

\* the tracked products without a row on the target date
NotSoldOf(products) ==
  {p \in products : \A k \in KindsOf({p}) : LoadedRows(last.today_date)[k] = 0}

\* score and alert of the quantity, zero-sale and value rules of the High-Value
\* detector for n history days with quantity sum q and value sum v, and today's
\* quantity tq and value tv
OtherHighValueRules(n, q, v, tq, tv) ==
  [score |-> (IF q > 0 /\ 2 * n * tq < q THEN 25 ELSE 0)
               + (IF q > 0 /\ tq = 0 /\ q > 2 * n THEN 20 ELSE 0)
               + (IF v > 0 /\ 5 * n * tv < 2 * v THEN 15 ELSE 0),
   alert |-> \/ (q > 0 /\ 2 * n * tq < q)
             \/ (q > 0 /\ tq = 0 /\ q > 2 * n)
             \/ (v > 0 /\ 5 * n * tv < 2 * v)]

\* C20: whenever the High-Value detector analyses and at least 70% of the
\* tracked products have no sale on the target date, the message 'products NOT
\* sold today' is in the result, 10 is added to the score of the other rules
\* (before the cap of 35), and alert is what the other rules make it; the day
\* on which no tracked product is sold at all is included.
C20_UnsoldShareAddsTen ==
  (Detected("calculate_high_value_product_anomaly") /\ results.can_analyze) =>
    \E products \in {Tracked} : \E kinds \in {KindsOf(products)} :
      \E days \in {HistoryDaysOf(kinds)} :
        (10 * Cardinality(NotSoldOf(products)) >= 7 * Cardinality(products)) =>
          \E o \in {OtherHighValueRules(Cardinality(days), QuantityOver(kinds, days),
                                        SumOver(days, LAMBDA d : SalesOf(kinds, d)),
                                        QuantityOf(kinds, last.today_date),
                                        SalesOf(kinds, last.today_date))} :
            /\ InMessages(NotSoldMessage)
            /\ results.risk_score = Min(35, o.score + 10)
            /\ results.alert = o.alert

BelowHalfMessage == "Already significantly below weekly average"
ShortfallMessage == "On track for % below normal"

\* C21: whenever the Weekly Trend detector applies the 'already below 50% of
\* baseline with at least 4 days elapsed' contribution, the projected-shortfall
\* rule (more than 20%) has fired as well and the result has alert = true.
C21_BelowHalfFoldsIntoAlert ==
  (Detected("calculate_weekly_trend_anomaly") /\ InMessages(BelowHalfMessage)) =>
    /\ InMessages(ShortfallMessage)
    /\ results.alert

\* the scores were converted
Scored == last.op = "predict"

\* r is the whole part of (0.5 - score) * 70, score in thousandths
WholePartOf(r, score) ==
  IF score <= 500
  THEN r >= 0 /\ r * 1000 <= (500 - score) * 70 /\ (500 - score) * 70 < (r + 1) * 1000
  ELSE r <= 0 /\ r * 1000 >= (500 - score) * 70 /\ (500 - score) * 70 > (r - 1) * 1000

\* C22: the ML detector's risk contribution is min(35, max(0, min(100, t)))
\* with t the whole part of (0.5 - anomaly_score) * 70; it is an integer of
\* 0..35, and a higher anomaly score never gives a higher contribution.
C22_MlRiskClampedMonotone ==
  Scored =>
    /\ results.risk_score \in 0..35
    /\ \E t \in -100..200 :
         /\ WholePartOf(t, results.anomaly_score)
         /\ results.risk_score = Min(35, Max(0, Min(100, t)))
    /\ results.higher_risk \in 0..35
    /\ results.higher_risk <= results.risk_score

\* C22 case: a score between 0 and 0.5 whose contribution lies strictly between
\* 0 and 35, and a higher score whose contribution is strictly lower
C22_Witness ==
  /\ Scored
  /\ results.anomaly_score \in 1..499
  /\ results.risk_score \in 1..34
  /\ results.higher_risk < results.risk_score

\* the Daily Sales detector ran with a branch filter on the two tables
BranchCompared == last.op = "daily_sales_of_branch"

\* the number of rows of day d of table df that belong to another branch than
\* the one passed
OtherBranchRows(df, d) ==
  SumFn([k \in Kinds |-> IF RowKinds[k].branch_id # last.kwargs.branch_id
                         THEN df.rows[d][k] ELSE 0], 1, Len(RowKinds))

\* C23: with a branch_id passed and a branch_id column present, two tables
\* that agree on the rows of that branch and differ only in rows of other
\* branches give the same Daily Sales result, for every target date.
C23_OtherBranchesDoNotCount ==
  (BranchCompared /\ "branch_id" \in loaded_df.columns) =>
    results.first = results.second

\* C23 case: the two tables differ in the other branches' rows on the target
\* date and on a same-weekday day of the window, and the detector compared
\* the day with its history and raised an alert
C23_Witness ==
  /\ BranchCompared
  /\ "branch_id" \in loaded_df.columns
  /\ last.today_date \in DOMAIN loaded_df.rows
  /\ OtherBranchRows(loaded_df, last.today_date)
       # OtherBranchRows(results.other_df, last.today_date)
  /\ OtherBranchRows(loaded_df, last.today_date - 7)
       # OtherBranchRows(results.other_df, last.today_date - 7)
  /\ "avg_sales" \in DOMAIN results.first.metrics
  /\ results.first.alert
  /\ results.first = results.second

\* the two feature rows of a day were built
FeaturesBuilt == last.op = "features_of_day"

\* C24: for every day present in a table, the 9-feature vector predict()
\* builds for it equals, feature by feature and in the same column order, the
\* row _extract_daily_features produces for it and train() feeds to the scaler.
C24_PredictRowIsTrainRow ==
  FeaturesBuilt =>
    /\ Len(results.predict_row) = 9
    /\ Len(results.train_row) = 9
    /\ \A i \in 1..9 : results.predict_row[i] = results.train_row[i]

\* C24 case: a day with cheap, dear and mid-priced rows, more than 10 of them,
\* whose sales and row count differ
C24_Witness ==
  /\ FeaturesBuilt
  /\ LoadedRows(last.today_date)[1] > 10
  /\ LoadedRows(last.today_date)[2] > 0
  /\ LoadedRows(last.today_date)[3] > 0
  /\ results.predict_row[1] # results.predict_row[2]
  /\ results.predict_row[4][1] > 0
  /\ results.predict_row[6][1] > 0
  /\ results.predict_row = results.train_row

\* the keys of the results dict
AlgorithmNames == {Algorithms[i] : i \in 1..Len(Algorithms)}

\* the sum of the scores of all five detectors, analysed or not
AllScoresSum(res) ==
  res.daily_sales.risk_score + res.high_value_products.risk_score
    + res.product_mix.risk_score + res.weekly_trends.risk_score
    + res.ml_anomaly.risk_score

\* the detectors of the last assessment that did not analyse
NotAnalysed == {a \in AlgorithmNames : ~ResultsOfLast[a].can_analyze}

\* C25: every result a detector returns with can_analyze = false has
\* risk_score 0 and alert = false, so leaving such a detector out of the sum
\* discards nothing: the total is the capped sum of all five scores.
C25_NotAnalysedScoresNothing ==
  Called =>
    /\ \A a \in NotAnalysed :
         /\ ResultsOfLast[a].risk_score = 0
         /\ ~ResultsOfLast[a].alert
    /\ last.assessment.total_risk_score = Min(100, AllScoresSum(ResultsOfLast))

\* C25 case: the Weekly Trend and ML detectors decline while other detectors
\* score the day
C25_Witness ==
  /\ Called
  /\ {"weekly_trends", "ml_anomaly"} \subseteq NotAnalysed
  /\ last.assessment.total_risk_score > 0
  /\ last.assessment.total_risk_score = AllScoresSum(ResultsOfLast)

\* C26: the Daily Sales detector returns can_analyze = true on every return
\* path, so in every assessment of calculate_overall_risk 'daily_sales' is the
\* first entry of algorithms_run and algorithms_run is never empty.
C26_DailySalesAlwaysRuns ==
  Called =>
    /\ ResultsOfLast.daily_sales.can_analyze
    /\ Len(last.assessment.algorithms_run) >= 1
    /\ last.assessment.algorithms_run[1] = "daily_sales"

\* C26 case: a target date without rows, on which every other detector
\* declines and Daily Sales takes its early return
C26_Witness ==
  /\ Called
  /\ LoadedRows(last.today_date) = NoRows
  /\ ResultsOfLast.daily_sales.messages = <<"No transactions today yet">>
  /\ last.assessment.algorithms_run = <<"daily_sales">>

\* the ML detector analysed the day of the last assessment
MlAnalysed == Called /\ ResultsOfLast.ml_anomaly.can_analyze

\* the anomaly score of the last assessment's day, in thousandths: that of the
\* day's features under the model and scaler at model_path, which are the ones
\* the call loaded or trained and saved
MlScoreOfLast ==
  ScoreSamples(model_file.bytes[1].value,
               ScalerTransform(model_file.bytes[2].value, ResultsOfLast.ml_anomaly.metrics))

\* C27: for every anomaly score of 0 or less, the risk_score the ML detector
\* returns is exactly 35, whatever the score and the label; whenever the ML
\* detector analyses with such a score, total_risk_score is at least 35.
C27_NonPositiveScoreGivesCap ==
  (MlAnalysed /\ MlScoreOfLast <= 0) =>
    /\ ResultsOfLast.ml_anomaly.risk_score = 35
    /\ last.assessment.total_risk_score >= 35

\* C27 case: the ML detector analyses a day the forest labels normal, with a
\* score below 0, and no other detector scores anything
C27_Witness ==
  /\ MlAnalysed
  /\ MlScoreOfLast < 0
  /\ ~ResultsOfLast.ml_anomaly.alert
  /\ ResultsOfLast.ml_anomaly.risk_score = 35
  /\ last.assessment.total_risk_score = 35

\* the target dates whose training set (the rows of the loaded table dated
\* before the date) yields the model now at model_path
FitCutoffs ==
  {c \in TargetDates :
     /\ Fits[RowsBefore(loaded_df, c), DEFAULT_CONTAMINATION].n_days >= MIN_TRAINING_DAYS
     /\ model_file.bytes[1].value = Fits[RowsBefore(loaded_df, c), DEFAULT_CONTAMINATION].model}

\* C28: after any sequence of calls with varying target dates over the same
\* table, the model that scores a target date was fitted only on rows dated
\* strictly before that date: a model fitted by one of the calls on the rows
\* before a date is the model fitted on the rows before a date no later than
\* the one it scores.
C28_ModelFittedBeforeTarget ==
  (MlAnalysed /\ FitCutoffs # {}) =>
    \E c \in FitCutoffs : c <= last.today_date

\* the assessment was made on the two tables
PastCompared == last.op = "overall_risk_of_past"

\* C29: starting with no persisted model, two tables that hold the same rows
\* dated on or before the target date and differ only in later rows give the
\* same result from every detector and the same combined assessment.
C29_LaterRowsDoNotCount ==
  PastCompared => results.first = results.second

\* the detectors of the last assessment whose result has alert = true
Alerting == {a \in AlgorithmNames : ResultsOfLast[a].alert}

\* C30: every detector result with alert = true has a risk_score above 0 and
\* at least one message; hence an assessment with a non-empty alert_messages
\* has a total_risk_score above 0.
C30_AlertHasScoreAndMessage ==
  Called =>
    /\ \A a \in Alerting :
         /\ ResultsOfLast[a].risk_score > 0
         /\ Len(ResultsOfLast[a].messages) > 0
    /\ Len(last.assessment.alert_messages) > 0 => last.assessment.total_risk_score > 0

\* C30 case: all five detectors alert on the same day, each with a score and
\* messages, and the assessment carries their messages
C30_Witness ==
  /\ Called
  /\ Alerting = AlgorithmNames
  /\ Len(last.assessment.alert_messages) >= 5
  /\ last.assessment.total_risk_score > 0

====
